---------------------------- MODULE Spec2Model ----------------------------
(***************************************************************************)
(* A model of the glassesValidator processing stages:                      *)
(*   - e2_determineFixationIntervals.py : the interval loop, the data      *)
(*     handed to I2MC, the greedy fixation-to-target matching of each      *)
(*     interval and the rows stored for it;                                *)
(*   - b_detectMarkers.py : the per-frame marker-detection loop that       *)
(*     writes the pose table;                                              *)
(*   - c_gazeToBoard.py / process/d_gazeToBoard.py : the per-frame,        *)
(*     per-sample loop that writes the gaze-on-board table;                *)
(*   - e1_computeOffsetsToTargets.py : the offsets of each sample to each  *)
(*     target, per analysis interval;                                      *)
(*   - GUI/_impl/callbacks.py : the export of the data-quality tables.     *)
(* Python containers are 0-based; sequences of the model that stand for    *)
(* numpy arrays or dicts keyed by position are functions over 0..n-1.      *)
(***************************************************************************)
EXTENDS Integers, Sequences, FiniteSets, TLC

VARIABLES
    \* ---- e2_determineFixationIntervals.process --------------------------
    targets,      \* dict target -> center, in dictionary order (0..T-1)
    fix,          \* I2MC output: 0..n-1 -> [dur, xpos, ypos]
    used,         \* numpy bool array over the fixations
    selected,     \* numpy int array over the targets, -999 = none
    ti,           \* position of the matching loop (the i of line 103)
    df,           \* the rows stored for the interval (lines 135-144)
    pcFix,        \* "start", "collect", "classify", "match", "done",
                  \* "returned", "raised"
    f_analyzeFrames,  \* markerInterval.tsv as a flat list, <<>> = None
    f_gazeWorld,      \* the samples of gazeWorldPos.tsv, in file order
    f_ival,           \* ival of the interval loop (line 76)
    f_data,           \* the samples handed to I2MC for the interval
    f_file,           \* the lines of analysisInterval.tsv
    \* ---- b_detectMarkers.process ----------------------------------------
    b_frame_idx,  \* frame_idx of the detection loop
    b_ids,        \* ids returned by detectMarkers for the frame just read
    b_video,      \* the ids detected in each frame read so far (history)
    b_rows,       \* data rows of transformations.tsv
    pcDet,        \* "read", "detect", "show", "closed"
    \* ---- c_gazeToBoard.process / d_gazeToBoard.process -------------------
    c_showVisualization,  \* gShowVisualization / showVisualization
    c_showOnlyIntervals,  \* showOnlyIntervals
    c_analyzeFrames,      \* markerInterval.tsv as a flat list, <<>> = None
    c_camera,             \* calibration.xml: [R, position]
    c_gazeData,           \* the entries of gazeData.tsv, in file order
    c_poses,              \* boardPose.tsv: frame_idx -> [R, tVec]
    c_nRead,              \* entries of gazeData.tsv read so far
    c_gazes,              \* dict frame_idx -> list of Gaze
    c_maxFrameIdx,
    c_frame_idx,          \* frame_idx of the main loop
    c_sample,             \* position in gazes[frame_idx]
    c_rows,               \* data rows of gazeWorldPos.tsv
    c_stopAllProcessing,
    pcGaze,               \* "readGaze", "frame", "samples", "closing", "done"
    \* ---- e1_computeOffsetsToTargets.process ------------------------------
    o_analyzeFrames,      \* markerInterval.tsv as a flat list, <<>> = None
    o_gazeWorld,          \* the samples of gazeWorldPos.tsv, in file order
    o_poses,              \* rVec, tVec: frame_idx -> [R, tVec]
    o_targets,            \* targets: <<id, center>> in dictionary order
    o_ival,               \* ival of the interval loop
    o_file,               \* the lines of gazeTargetOffset.tsv
    pcOff,                \* "start", "interval", "done", "raised"
    \* ---- the scene video ------------------------------------------------
    videoOpens,           \* cv2.VideoCapture(worldCamera.mp4).isOpened()
    \* ---- GUI/_impl/callbacks.export_data_quality ------------------------
    x_ids,                \* ids: the selected recordings
    x_tables,             \* the rows of dataQuality.tsv of each of them
    x_settings,           \* globals.settings: the dq_use_* that are set
    x_popup,              \* pop_data of the pushed popup, <<>> = no popup
    x_export,             \* the project's dataQuality.tsv, <<>> = no file
    pcExp,                \* "start", "popup", "exported", "done", "raised"
    c_batch,              \* recordings of the batch the loop has started
    c_key,                \* the key that ended the frame loop, "" = none
    j_entries,            \* the entries of the tracker's gaze data file
    j_df,                 \* the DataFrame json2df returns: <<columns, rows>>
    pcJson,               \* "start", "done"
    g_recordings,         \* globals.recordings: id -> task, source_directory
    g_selected,           \* globals.selected_recordings: id -> ticked
    g_jobs,               \* globals.jobs: recording id -> job id, task
    g_queue,              \* globals.coding_job_queue: recording id -> task
    g_pool,               \* the process pool: job id -> recording, task, state
    g_popup,              \* the popup waiting for an answer, <<>> = none
    a_paths,              \* the paths handed to _show_addable_recordings
    a_offered,            \* recordings_to_add of the import popup
    pcAdd                 \* "start", "popup", "nothing"

varsFix == <<targets, fix, used, selected, ti, df, pcFix, f_analyzeFrames,
             f_gazeWorld, f_ival, f_data, f_file>>
varsDet == <<b_frame_idx, b_ids, b_video, b_rows, pcDet>>
varsGaze == <<c_showVisualization, c_showOnlyIntervals, c_analyzeFrames,
              c_camera, c_gazeData, c_poses, c_nRead, c_gazes, c_maxFrameIdx,
              c_frame_idx, c_sample, c_rows, c_stopAllProcessing, pcGaze>>
varsOff == <<o_analyzeFrames, o_gazeWorld, o_poses, o_targets, o_ival,
             o_file, pcOff>>
varsEnv == <<videoOpens>>
varsExp == <<x_ids, x_tables, x_settings, x_popup, x_export, pcExp>>
varsBatch == <<c_batch, c_key>>
varsJson == <<j_entries, j_df, pcJson>>
varsGui == <<g_recordings, g_selected, g_jobs, g_queue, g_pool, g_popup,
             a_paths, a_offered, pcAdd>>
vars == <<varsFix, varsDet, varsGaze, varsOff, varsEnv, varsExp, varsBatch,
          varsJson, varsGui>>

-----------------------------------------------------------------------------
(* Bounds of the model *)
MaxTargets == 3
MaxFix == 3
MaxFrames == 3
MaxKnown == 4
MaxUnknown == 2

(* Board-plane positions (mm) offered to targets and fixation means *)
Pos == {<<0, 0>>, <<1, 0>>, <<0, 2>>}
(* Fixation durations (ms): below the threshold and exactly at it *)
Durs == {100, 150}

-----------------------------------------------------------------------------
(* Floating-point values of the stages.  A value is a fraction <<n, d>>
   in lowest terms with d > 0, or not-a-number, <<0, 0>>.  Rounding is not
   modelled. *)

NaN == <<0, 0>>
IsNaN(x) == x[2] = 0

Abs(a) == IF a < 0 THEN 0 - a ELSE a

RECURSIVE Gcd(_, _)
Gcd(a, b) == IF b = 0 THEN a ELSE Gcd(b, a % b)

Q(n, d) ==
    LET g == Gcd(Abs(n), Abs(d))
        sgn == IF d < 0 THEN 0 - 1 ELSE 1
    IN  <<(sgn * n) \div g, (sgn * d) \div g>>

R(a) == <<a, 1>>

Add(x, y) == IF IsNaN(x) \/ IsNaN(y) THEN NaN ELSE Q(x[1] * y[2] + y[1] * x[2], x[2] * y[2])
Neg(x) == IF IsNaN(x) THEN NaN ELSE <<0 - x[1], x[2]>>
Sub(x, y) == Add(x, Neg(y))
Mul(x, y) == IF IsNaN(x) \/ IsNaN(y) THEN NaN ELSE Q(x[1] * y[1], x[2] * y[2])
(* a quotient; it is used where the divisor is not zero, or where both are *)
Div(x, y) == IF IsNaN(x) \/ IsNaN(y) \/ y[1] = 0 THEN NaN ELSE Q(x[1] * y[2], x[2] * y[1])

Vec(a, b, c) == <<R(a), R(b), R(c)>>
NaNVec == <<NaN, NaN, NaN>>
Zero3 == Vec(0, 0, 0)

Dot(a, b) == Add(Add(Mul(a[1], b[1]), Mul(a[2], b[2])), Mul(a[3], b[3]))
VAdd(a, b) == <<Add(a[1], b[1]), Add(a[2], b[2]), Add(a[3], b[3])>>
VSub(a, b) == <<Sub(a[1], b[1]), Sub(a[2], b[2]), Sub(a[3], b[3])>>
Scale(t, a) == <<Mul(t, a[1]), Mul(t, a[2]), Mul(t, a[3])>>
(* np.matmul of a 3x3 matrix, given by its rows, and a vector *)
MatVec(M, v) == <<Dot(M[1], v), Dot(M[2], v), Dot(M[3], v)>>
Transpose(M) == [r \in 1..3 |-> [c \in 1..3 |-> M[c][r]]]
NegMat(M) == [r \in 1..3 |-> [c \in 1..3 |-> Neg(M[r][c])]]

-----------------------------------------------------------------------------
(* pandas *)

(* a line of a file written by DataFrame.to_csv *)
HeaderLine(cols) == [header |-> TRUE, cols |-> cols, row |-> <<>>]
DataLine(r) == [header |-> FALSE, cols |-> <<>>, row |-> r]
StaleLine == [header |-> FALSE, cols |-> <<"stale">>, row |-> <<>>]

(* DataFrame.to_csv(mode = 'w' if ival == 0 else 'a', header = ival == 0) *)
to_csv(file, columns, rows, ival) ==
    (IF ival = 0 THEN <<>> ELSE file)
    \o (IF ival = 0 THEN <<HeaderLine(columns)>> ELSE <<>>)
    \o [n \in 1..Len(rows) |-> DataLine(rows[n])]

-----------------------------------------------------------------------------
(* e2_determineFixationIntervals.py *)

minDur == 150
NotSelected == 0 - 999

(* math.inf in a distance array; real distances are >= 0 *)
Inf == 0 - 1

(* np.hypot(dx,dy), kept squared: the ordering of distances is the same *)
Hypot2(dx, dy) == dx * dx + dy * dy

DistLess(a, b) == a # Inf /\ (b = Inf \/ a < b)

(* np.all(used): True for an empty array *)
NpAll(u) == \A k \in DOMAIN u : u[k]

(* np.argmin: the first index holding the minimum (0 when all are inf) *)
ArgMin(dist) ==
    CHOOSE k \in DOMAIN dist :
        /\ \A j \in DOMAIN dist : ~DistLess(dist[j], dist[k])
        /\ \A j \in DOMAIN dist : j < k => DistLess(dist[k], dist[j])

(* the distance array with line 109 left out: claimed fixations keep their
   distance *)
DistToKeepingUsed(t, f, u) ==
    [k \in DOMAIN f |->
        IF f[k].dur < minDur
        THEN Inf
        ELSE Hypot2(f[k].xpos - t[1], f[k].ypos - t[2])]

(* lines 108-110: the distance array of target t *)
DistTo(t, f, u) ==
    [k \in DOMAIN f |->
        IF u[k] \/ f[k].dur < minDur
        THEN Inf
        ELSE Hypot2(f[k].xpos - t[1], f[k].ypos - t[2])]

FixRec == [dur : Durs, xpos : {p[1] : p \in Pos}, ypos : {p[2] : p \in Pos}]
FixOnPos == {r \in FixRec : <<r.xpos, r.ypos>> \in Pos}

(* fixations follow one another in time: start and end of fixation k *)
StartT(k) == k * 1000
EndT(f, k) == k * 1000 + f[k].dur

(* a 2D gaze position on the board, and the one of a sample without it *)
GazePt == <<R(0), R(1)>>
NaNPt == <<NaN, NaN>>

(* the board position that the k-th gaze field of a sample holds *)
FieldPt(k) == <<R(k), R(1)>>

(* utils.GazeWorld: the fields of a sample that this stage reads *)
FixSample(frame_idx, ts, l, r, ray, hom) ==
    [frame_idx |-> frame_idx, ts |-> ts, lGaze2D |-> l, rGaze2D |-> r,
     gaze2DRay |-> ray, gaze2DHomography |-> hom]

(* what a sample can hold: nothing, everything, the left eye and the ray,
   the homography only *)
FixKinds ==
    {<<NaNPt, NaNPt, NaNPt, NaNPt>>,
     <<FieldPt(1), FieldPt(2), FieldPt(3), FieldPt(4)>>,
     <<FieldPt(1), NaNPt, FieldPt(3), NaNPt>>,
     <<NaNPt, NaNPt, NaNPt, FieldPt(4)>>}

FixAnalyzeOptions == {<<>>, <<0, 0>>, <<0, 1>>, <<0, 0, 1, 1>>, <<1, 1>>}

(* lines 20-38: the targets of the board are loaded, one interval is coded
   and the gaze samples of its frame have data of every kind; the other
   stages are not running *)
InitFix ==
    /\ \E n \in 1..MaxTargets : targets \in [0..(n - 1) -> Pos]
    /\ fix = <<>>
    /\ used = <<>>
    /\ selected = <<>>
    /\ ti = 0
    /\ df = <<>>
    /\ pcFix = "start"
    /\ f_analyzeFrames = <<0, 0>>
    /\ f_gazeWorld = [n \in 1..MaxFix |->
                        FixSample(0, n * 10, GazePt, GazePt, GazePt, GazePt)]
    /\ f_ival = 0
    /\ f_data = <<>>
    /\ f_file = <<>>
    /\ b_frame_idx = 0 /\ b_ids = <<>> /\ b_video = <<>> /\ b_rows = <<>>
    /\ pcDet = "idle"
    /\ c_showVisualization = FALSE /\ c_showOnlyIntervals = FALSE
    /\ c_analyzeFrames = <<>> /\ c_camera = <<>> /\ c_gazeData = <<>>
    /\ c_poses = <<>> /\ c_nRead = 0 /\ c_gazes = <<>> /\ c_maxFrameIdx = 0
    /\ videoOpens = TRUE
    /\ x_ids = <<>> /\ x_tables = <<>> /\ x_settings = {}
    /\ x_popup = <<>> /\ x_export = <<>> /\ pcExp = "idle"
    /\ c_batch = 0 /\ c_key = ""
    /\ j_entries = <<>> /\ j_df = <<>> /\ pcJson = "idle"
    /\ g_recordings = <<>> /\ g_selected = <<>> /\ g_jobs = <<>>
    /\ g_queue = <<>> /\ g_pool = <<>> /\ g_popup = <<>>
    /\ a_paths = <<>> /\ a_offered = <<>> /\ pcAdd = "idle"
    /\ c_frame_idx = 0 /\ c_sample = 0 /\ c_rows = <<>>
    /\ c_stopAllProcessing = FALSE /\ pcGaze = "idle"
    /\ o_analyzeFrames = <<>> /\ o_gazeWorld = <<>> /\ o_poses = <<>>
    /\ o_targets = <<>> /\ o_ival = 0 /\ o_file = <<>> /\ pcOff = "idle"

(* lines 28-31: without coded intervals the recording is skipped *)
FixStart ==
    /\ pcFix = "start"
    /\ pcFix' = IF f_analyzeFrames = <<>> THEN "returned" ELSE "collect"
    /\ UNCHANGED <<targets, fix, used, selected, ti, df, f_analyzeFrames,
                   f_gazeWorld, f_ival, f_data, f_file>>
    /\ UNCHANGED <<varsDet, varsGaze, varsOff, varsEnv, varsExp, varsBatch,
                   varsJson, varsGui>>

(* flags that take every kind of data to be there *)
qHasAlways(gazeWorld, field) == TRUE

(* lines 72-75: np.any(np.logical_not(np.isnan(...))) over all samples *)
qHas(gazeWorld, field) ==
    \E n \in 1..Len(gazeWorld) :
        \E c \in 1..2 : ~IsNaN(gazeWorld[n][field][c])

(* the filter with the end frame left out *)
IntervalSamplesEndExclusive(gazeWorld, analyzeFrames, ival) ==
    SelectSeq(gazeWorld,
              LAMBDA s : /\ s.frame_idx >= analyzeFrames[ival * 2 + 1]
                         /\ s.frame_idx < analyzeFrames[ival * 2 + 2])

(* line 77: the samples of the frames of interval ival *)
IntervalSamples(gazeWorld, analyzeFrames, ival) ==
    SelectSeq(gazeWorld,
              LAMBDA s : /\ s.frame_idx >= analyzeFrames[ival * 2 + 1]
                         /\ s.frame_idx <= analyzeFrames[ival * 2 + 2])

(* the result of lines 78-92 when line 92 raises *)
NoData == <<>>

(* lines 78-92: data as <<time, keys, values>> *)
CollectedData(gazeWorld, samples) ==
    LET time == [n \in 1..Len(samples) |-> samples[n].ts]
    IN  IF qHas(gazeWorld, "lGaze2D") /\ qHas(gazeWorld, "rGaze2D")
        THEN <<time, <<"L_X", "L_Y", "R_X", "R_Y">>,
               [n \in 1..Len(samples) |->
                   samples[n].lGaze2D \o samples[n].rGaze2D]>>
        ELSE IF qHas(gazeWorld, "gaze2DRay")
        THEN <<time, <<"average_X", "average_Y">>,
               [n \in 1..Len(samples) |-> samples[n].gaze2DRay]>>
        ELSE IF qHas(gazeWorld, "gaze2DHomography")
        THEN <<time, <<"average_X", "average_Y">>,
               [n \in 1..Len(samples) |-> samples[n].gaze2DHomography]>>
        ELSE NoData

(* lines 76-92: the data of the next interval are collected *)
CollectData ==
    /\ pcFix = "collect"
    /\ f_ival < Len(f_analyzeFrames) \div 2
    /\ LET data == CollectedData(f_gazeWorld,
                                 IntervalSamples(f_gazeWorld, f_analyzeFrames,
                                                 f_ival))
       IN  IF data = NoData
           THEN /\ pcFix' = "raised"
                /\ UNCHANGED f_data
           ELSE /\ pcFix' = "classify"
                /\ f_data' = data
    /\ UNCHANGED <<targets, fix, used, selected, ti, df, f_analyzeFrames,
                   f_gazeWorld, f_ival, f_file>>
    /\ UNCHANGED <<varsDet, varsGaze, varsOff, varsEnv, varsExp, varsBatch,
                   varsJson, varsGui>>

Min(a, b) == IF a <= b THEN a ELSE b

(* lines 95-101: I2MC returns the fixations, not more of them than there
   are samples; used and selected are reset *)
Classify ==
    /\ pcFix = "classify"
    /\ \E n \in 0..Min(MaxFix, Len(f_data[1])) :
          fix' \in [0..(n - 1) -> FixOnPos]
    /\ used' = [k \in DOMAIN fix' |-> FALSE]
    /\ selected' = [k \in DOMAIN targets |-> NotSelected]
    /\ ti' = 0
    /\ pcFix' = "match"
    /\ UNCHANGED <<targets, df, f_analyzeFrames, f_gazeWorld, f_ival, f_data,
                   f_file>>
    /\ UNCHANGED <<varsDet, varsGaze, varsOff, varsEnv, varsExp, varsBatch,
                   varsJson, varsGui>>

(* lines 103-113: one iteration of the matching loop *)
MatchTarget ==
    /\ pcFix = "match"
    /\ ti \in DOMAIN targets
    /\ IF NpAll(used)
       THEN UNCHANGED <<used, selected>>
       ELSE LET dist == DistTo(targets[ti], fix, used)
                iFix == ArgMin(dist)
            IN  /\ selected' = [selected EXCEPT ![ti] = iFix]
                /\ used' = [used EXCEPT ![iFix] = TRUE]
    /\ ti' = ti + 1
    /\ UNCHANGED <<targets, fix, df, pcFix, f_analyzeFrames, f_gazeWorld,
                   f_ival, f_data, f_file>>
    /\ UNCHANGED <<varsDet, varsGaze, varsOff, varsEnv, varsExp, varsBatch,
                   varsJson, varsGui>>

(* lines 135-142: the rows of the assigned targets, in target order *)
RECURSIVE RowsFrom(_)
RowsFrom(k) ==
    IF k \notin DOMAIN targets THEN <<>>
    ELSE (IF selected[k] = NotSelected
          THEN <<>>
          ELSE << [target |-> k,
                   marker_interval |-> f_ival + 1,
                   start_timestamp |-> StartT(selected[k]),
                   end_timestamp |-> EndT(fix, selected[k])] >>)
         \o RowsFrom(k + 1)

IntervalColumns ==
    <<"target", "marker_interval", "start_timestamp", "end_timestamp">>

(* lines 135-142: the columns of df come into being with the first
   df.loc[t, ...] = ...; a df without rows has the index name only *)
DfColumns(rows) == IF rows = <<>> THEN <<"target">> ELSE IntervalColumns

(* lines 135-144: the rows are stored and written, and the loop of line 76
   goes on *)
StoreIntervals ==
    /\ pcFix = "match"
    /\ ti \notin DOMAIN targets
    /\ df' = RowsFrom(0)
    /\ f_file' = to_csv(f_file, DfColumns(RowsFrom(0)), RowsFrom(0), f_ival)
    /\ f_ival' = f_ival + 1
    /\ pcFix' = IF f_ival + 1 < Len(f_analyzeFrames) \div 2
                THEN "collect" ELSE "done"
    /\ UNCHANGED <<targets, fix, used, selected, ti, f_analyzeFrames,
                   f_gazeWorld, f_data>>
    /\ UNCHANGED <<varsDet, varsGaze, varsOff, varsEnv, varsExp, varsBatch,
                   varsJson, varsGui>>

NextFix == FixStart \/ CollectData \/ Classify \/ MatchTarget \/ StoreIntervals

-----------------------------------------------------------------------------
(* b_detectMarkers.py *)

(* ids of the markers printed on the board, and ids of the same aruco
   dictionary that are not on it *)
knownMarkers == 0..(MaxKnown - 1)
OtherMarkers == 100..(100 + MaxUnknown - 1)

(* detectMarkers: k board markers followed by u markers not on the board;
   None, the array without entries, when nothing was detected *)
None == <<>>
Detected(k, u) ==
    [n \in 1..(k + u) |-> IF n <= k THEN n - 1 ELSE 100 + (n - k - 1)]

Detections == {Detected(k, u) : k \in 0..MaxKnown, u \in 0..MaxUnknown}

(* lines 56-62: four corners are collected for every detected id in known *)
RECURSIVE PtsSrc(_, _)
PtsSrc(known, detectedIDs) ==
    IF detectedIDs = <<>> THEN 0
    ELSE (IF Head(detectedIDs) \in known THEN 4 ELSE 0)
         + PtsSrc(known, Tail(detectedIDs))

(* lines 64-72: the status returned by estimateTransform *)
MinPoints == 4
estimateTransform(known, detectedIDs) == ~(PtsSrc(known, detectedIDs) < MinPoints)

(* line 181 *)
MinMarkers == 4

(* lines 180-185: the conditions under which the row of a frame is written *)
PoseFound(ids) ==
    /\ ids # None
    /\ Len(ids) >= MinMarkers
    /\ estimateTransform(knownMarkers, ids)

(* estimatePoseBoard: the detected markers that are on the board *)
nMarkersUsed(ids) == Cardinality({n \in DOMAIN ids : ids[n] \in knownMarkers})

(* lines 126-127: size of the scene video's frames, in pixels *)
width == 100
height == 100

(* lines 190-192: where the centre target is expected in the frame.  The
   frames offered with an even number of detected markers have it within
   the image, the others to the left of it *)
ExpectedTarget(ids) == IF Len(ids) % 2 = 0 THEN <<10, 20>> ELSE <<0 - 5, 20>>

(* line 195 *)
InImage(target) ==
    target[1] >= 0 /\ target[1] < width /\ target[2] >= 0 /\ target[2] < height

(* lines 184, 187: the homography and the pose of a frame, which do not
   bear on the shape of its row *)
FrameH == <<<<1, 0, 0>>, <<0, 1, 0>>, <<0, 0, 1>>>>
FrameRvec == <<0, 0, 0>>
FrameTvec == <<0, 0, 50>>

(* ndarray.flatten of a 3x3 matrix *)
Flatten(M) == M[1] \o M[2] \o M[3]

(* lines 161-166: the header of transformations.tsv *)
PoseHeader ==
    <<<<"frame_idx">>>>
    \o [k \in 1..9 |-> <<"transformation", (k - 1) \div 3, (k - 1) % 3>>]
    \o <<<<"poseNMarker">>>>
    \o [k \in 1..3 |-> <<"poseRvec", k - 1>>]
    \o [k \in 1..3 |-> <<"poseTvec", k - 1>>]
    \o [k \in 1..2 |-> <<"centerTarget", k - 1>>]

(* the row with the target stored only when it was drawn *)
PoseWriteDatTargetIfDrawn(frame_idx, H, n, Rvec, Tvec, target) ==
    <<frame_idx>> \o Flatten(H) \o <<n>> \o Rvec \o Tvec
    \o (IF InImage(target) THEN target ELSE <<>>)

(* lines 203-208: writeDat *)
PoseWriteDat(frame_idx, H, n, Rvec, Tvec, target) ==
    <<frame_idx>> \o Flatten(H) \o <<n>> \o Rvec \o Tvec \o target

(* the counter advanced only past frames that got a row *)
NextFrameIdxAfterRow(idx) ==
    IF b_rows # <<>> /\ b_rows[Len(b_rows)].frame_idx = idx THEN idx + 1 ELSE idx

(* line 220 *)
NextFrameIdx(idx) == idx + 1

(* lines 159-169: the output file holds its header, frame_idx = 0; the other
   stages are not running *)
InitDet ==
    /\ b_frame_idx = 0
    /\ b_ids = None
    /\ b_video = <<>>
    /\ b_rows = <<>>
    /\ pcDet = "read"
    /\ targets = <<>> /\ fix = <<>> /\ used = <<>> /\ selected = <<>>
    /\ ti = 0 /\ df = <<>> /\ pcFix = "idle"
    /\ f_analyzeFrames = <<>> /\ f_gazeWorld = <<>> /\ f_ival = 0
    /\ f_data = <<>> /\ f_file = <<>>
    /\ c_showVisualization = FALSE /\ c_showOnlyIntervals = FALSE
    /\ c_analyzeFrames = <<>> /\ c_camera = <<>> /\ c_gazeData = <<>>
    /\ c_poses = <<>> /\ c_nRead = 0 /\ c_gazes = <<>> /\ c_maxFrameIdx = 0
    /\ videoOpens = TRUE
    /\ x_ids = <<>> /\ x_tables = <<>> /\ x_settings = {}
    /\ x_popup = <<>> /\ x_export = <<>> /\ pcExp = "idle"
    /\ c_batch = 0 /\ c_key = ""
    /\ j_entries = <<>> /\ j_df = <<>> /\ pcJson = "idle"
    /\ g_recordings = <<>> /\ g_selected = <<>> /\ g_jobs = <<>>
    /\ g_queue = <<>> /\ g_pool = <<>> /\ g_popup = <<>>
    /\ a_paths = <<>> /\ a_offered = <<>> /\ pcAdd = "idle"
    /\ c_frame_idx = 0 /\ c_sample = 0 /\ c_rows = <<>>
    /\ c_stopAllProcessing = FALSE /\ pcGaze = "idle"
    /\ o_analyzeFrames = <<>> /\ o_gazeWorld = <<>> /\ o_poses = <<>>
    /\ o_targets = <<>> /\ o_ival = 0 /\ o_file = <<>> /\ pcOff = "idle"

(* lines 172-178: cap.read() and detectMarkers; the video ends at any frame *)
ReadFrame ==
    /\ pcDet = "read"
    /\ \/ /\ Len(b_video) < MaxFrames
          /\ \E ids \in Detections :
                /\ b_ids' = ids
                /\ b_video' = Append(b_video, ids)
          /\ pcDet' = "detect"
          /\ UNCHANGED <<b_frame_idx, b_rows>>
       \/ /\ pcDet' = "closed"
          /\ UNCHANGED <<b_frame_idx, b_ids, b_video, b_rows>>
    /\ UNCHANGED <<varsFix, varsGaze, varsOff, varsEnv, varsExp, varsBatch,
                   varsJson, varsGui>>

(* lines 180-212: homography and pose of the frame, the target drawn when
   it lies in the image, and the row of the frame *)
DetectFrame ==
    /\ pcDet = "detect"
    /\ IF PoseFound(b_ids)
       THEN LET target == ExpectedTarget(b_ids)
            IN b_rows' = Append(b_rows,
                   [frame_idx |-> b_frame_idx,
                    poseNMarker |-> nMarkersUsed(b_ids),
                    framesReadBefore |-> Len(b_video) - 1,
                    drawn |-> InImage(target),
                    fields |-> PoseWriteDat(b_frame_idx, FrameH,
                                            nMarkersUsed(b_ids),
                                            FrameRvec, FrameTvec, target)])
       ELSE UNCHANGED b_rows
    /\ pcDet' = "show"
    /\ UNCHANGED <<b_frame_idx, b_ids, b_video>>
    /\ UNCHANGED <<varsFix, varsGaze, varsOff, varsEnv, varsExp, varsBatch,
                   varsJson, varsGui>>

(* lines 215-220: imshow, waitKey; 'q' leaves the loop *)
WaitKey ==
    /\ pcDet = "show"
    /\ \E key \in {"q", "other"} :
          IF key = "q"
          THEN /\ pcDet' = "closed"
               /\ UNCHANGED b_frame_idx
          ELSE /\ pcDet' = "read"
               /\ b_frame_idx' = NextFrameIdx(b_frame_idx)
    /\ UNCHANGED <<b_ids, b_video, b_rows>>
    /\ UNCHANGED <<varsFix, varsGaze, varsOff, varsEnv, varsExp, varsBatch,
                   varsJson, varsGui>>

NextDet == ReadFrame \/ DetectFrame \/ WaitKey

-----------------------------------------------------------------------------
(* c_gazeToBoard.py, process/d_gazeToBoard.py *)

MaxSamples == 2
MaxFrameIdx == 2
MaxValSamples == 2

(* cv2.Rodrigues of the rotation vectors offered: no rotation, and a quarter
   turn about the x axis *)
Identity3 == <<Vec(1, 0, 0), Vec(0, 1, 0), Vec(0, 0, 1)>>
RotX90 == <<Vec(1, 0, 0), Vec(0, 0, 0 - 1), Vec(0, 1, 0)>>

(* rows of boardPose.tsv *)
Poses == {[R |-> Identity3, tVec |-> Vec(0, 0, 2)],
          [R |-> RotX90, tVec |-> Vec(0, 1, 3)]}
(* calibration.xml: rotation and position of the scene camera *)
Cameras == {[R |-> Identity3, position |-> Zero3],
            [R |-> Identity3, position |-> Vec(0, 0, 1)]}

(* per-eye data of a sample: present and meeting both boards, present and
   along the x axis, missing *)
EyeSeeing == [vec |-> Vec(0, 1, 3), origin |-> Vec(1, 0, 0)]
EyeAlongX == [vec |-> Vec(1, 0, 0 - 1), origin |-> Vec(0, 0, 0)]
EyeMissing == [vec |-> NaNVec, origin |-> NaNVec]
EyeData == {EyeSeeing, EyeAlongX, EyeMissing}
PresentEyeData == {EyeSeeing, EyeAlongX}
(* the 3D gaze point of a sample *)
World3D == {Vec(0, 1, 2), Vec(1, 0, 0)}

(* what a sample may hold: 3D gaze point, left eye, right eye *)
SampleData == World3D \X EyeData \X EyeData
(* what the samples after the first one of a recording hold *)
FollowingSampleData ==
    {<<Vec(0, 1, 2), EyeSeeing, EyeSeeing>>,
     <<Vec(1, 0, 0), EyeMissing, EyeSeeing>>,
     <<Vec(0, 1, 2), EyeAlongX, EyeMissing>>}

Gaze(frame_idx, ts, world3D, l, r) ==
    [frame_idx |-> frame_idx, ts |-> ts, world3D |-> world3D,
     lGazeVec |-> l.vec, lGazeOrigin |-> l.origin,
     rGazeVec |-> r.vec, rGazeOrigin |-> r.origin]

(* Idx2Timestamp.get: frame timestamps of a 25 Hz video, in ms *)
FrameTs(idx) == idx * 40

(* utils.intersect_plane_ray, which is not part of the sources at hand: per
   the design, t = dot(normal, point - origin) / dot(normal, direction) and
   the intersection is origin + t * direction; a direction parallel to the
   plane yields not-a-number *)
intersect_plane_ray(planeNormal, planePoint, rayDirection, rayPoint) ==
    LET ndotu == Dot(planeNormal, rayDirection)
    IN  IF ~IsNaN(ndotu) /\ ndotu[1] = 0
        THEN NaNVec
        ELSE VAdd(rayPoint,
                  Scale(Div(Dot(planeNormal, VSub(planePoint, rayPoint)), ndotu),
                        rayDirection))

(* line 208: g3D /= np.sqrt((g3D**2).sum()).  The length of a direction does
   not move the intersection, so a vector of non-zero length is kept as it
   is; a zero vector is 0/0 and a vector holding NaN has a NaN length *)
Normalize(v) ==
    LET sq == Dot(v, v)
    IN  IF IsNaN(sq) \/ sq[1] = 0 THEN NaNVec ELSE v

(* lines 192-199 *)
BoardNormal(pose) == MatVec(pose.R, Vec(0, 0, 1))
BoardPoint(pose) == VAdd(MatVec(pose.R, Zero3), pose.tVec)

(* lines 196, 211, 240: np.matmul(RtBoardInv, [p, 1]) *)
ToBoard(pose, p) ==
    VAdd(MatVec(Transpose(pose.R), p),
         MatVec(NegMat(Transpose(pose.R)), pose.tVec))

(* lines 203, 226-227: np.matmul(RtCam, [v, 1]) *)
ToCamera(cam, v) == VAdd(MatVec(cam.R, v), cam.position)

(* lines 207-216: the 3D gaze point as a ray from the camera *)
Gaze3DPart(gaze, pose, cam) ==
    LET g3D == Normalize(MatVec(cam.R, gaze.world3D))
        g3Board == intersect_plane_ray(BoardNormal(pose), BoardPoint(pose), g3D, Zero3)
        xyz == ToBoard(pose, g3Board)
    IN  g3Board \o <<xyz[1], xyz[2]>>

(* the board point of an eye with the else branch of line 245 left out *)
EyeBoard2DNoElse(gBoard, pose) ==
    IF ~IsNaN(gBoard[1])
    THEN LET xyz == ToBoard(pose, gBoard) IN <<xyz[1], xyz[2]>>
    ELSE <<>>

(* lines 239-246 *)
EyeBoard2D(gBoard, pose) ==
    IF ~IsNaN(gBoard[1])
    THEN LET xyz == ToBoard(pose, gBoard) IN <<xyz[1], xyz[2]>>
    ELSE <<NaN, NaN>>

(* lines 226-246: one eye *)
EyePart(gVec0, gOri0, pose, cam) ==
    LET gVec == ToCamera(cam, gVec0)
        gOri == ToCamera(cam, gOri0)
        gBoard == intersect_plane_ray(BoardNormal(pose), BoardPoint(pose), gVec, gOri)
    IN  gOri \o gBoard \o EyeBoard2D(gBoard, pose)

(* lines 189-246: writeDat *)
WriteDat(frame_idx, gaze, pose, cam) ==
    <<R(frame_idx), R(FrameTs(frame_idx)), R(gaze.ts)>>
    \o BoardPoint(pose) \o BoardNormal(pose)
    \o Gaze3DPart(gaze, pose, cam)
    \o EyePart(gaze.lGazeVec, gaze.lGazeOrigin, pose, cam)
    \o EyePart(gaze.rGazeVec, gaze.rGazeOrigin, pose, cam)

(* utils.getXYZLabels, which is not part of the sources at hand: for every
   name given its first N labels of name_x, name_y, name_z *)
getXYZLabels(names, N) ==
    [k \in 1..(Len(names) * N) |-> <<names[((k - 1) \div N) + 1], (k - 1) % N>>]

(* lines 146-153: the header of gazeWorldPos.tsv *)
GazeHeader ==
    <<<<"frame_idx">>, <<"frame_timestamp">>, <<"gaze_timestamp">>>>
    \o getXYZLabels(<<"planePoint", "planeNormal">>, 3)
    \o getXYZLabels(<<"gazeCam3D_vidPos">>, 3)
    \o getXYZLabels(<<"gazeBoard2D_vidPos">>, 2)
    \o getXYZLabels(<<"gazeOriLeft", "gazeCam3DLeft">>, 3)
    \o getXYZLabels(<<"gazeBoard2DLeft">>, 2)
    \o getXYZLabels(<<"gazeOriRight", "gazeCam3DRight">>, 3)
    \o getXYZLabels(<<"gazeBoard2DRight">>, 2)

(* a sample is given a row only when all of its board points are numbers *)
RowsOfSampleIfValid(frame_idx, gaze, poses, cam) ==
    IF frame_idx \in DOMAIN poses
    THEN LET w == WriteDat(frame_idx, gaze, poses[frame_idx], cam)
         IN  IF \E n \in DOMAIN w : IsNaN(w[n]) THEN <<>> ELSE <<w>>
    ELSE <<>>

(* lines 188-263 (d_gazeToBoard.py 106-117): the row of a sample *)
RowsOfSample(frame_idx, gaze, poses, cam) ==
    IF frame_idx \in DOMAIN poses
    THEN <<WriteDat(frame_idx, gaze, poses[frame_idx], cam)>>
    ELSE <<>>

(* the dict filled with each frame keeping its last sample only *)
AddGazeReplacing(gazes, gaze) ==
    [f \in DOMAIN gazes \cup {gaze.frame_idx} |->
        IF f = gaze.frame_idx THEN <<gaze>> ELSE gazes[f]]

(* lines 125-128 *)
AddGaze(gazes, gaze) ==
    [f \in DOMAIN gazes \cup {gaze.frame_idx} |->
        IF f = gaze.frame_idx
        THEN (IF f \in DOMAIN gazes THEN Append(gazes[f], gaze) ELSE <<gaze>>)
        ELSE gazes[f]]

(* line 130 *)
Max(a, b) == IF a >= b THEN a ELSE b

(* d_gazeToBoard.py line 42 *)
hasAnalyzeFrames == c_showOnlyIntervals /\ c_analyzeFrames # <<>>

(* d_gazeToBoard.py lines 80-84 *)
inIval(frame_idx) ==
    \E f \in {n \in 1..Len(c_analyzeFrames) : n % 2 = 1} :
        frame_idx >= c_analyzeFrames[f] /\ frame_idx <= c_analyzeFrames[f + 1]

(* markerInterval.tsv: absent, or one coded interval *)
AnalyzeOptions == {<<>>, <<1, 1>>, <<0, 1>>}

PoseTables == UNION {[F -> Poses] : F \in SUBSET (0..MaxFrameIdx)}

(* the samples of one recording agree in what the tracker delivers; the
   loop is followed over several frames *)
InitGaze ==
    /\ c_showVisualization \in BOOLEAN
    /\ c_showOnlyIntervals \in BOOLEAN
    /\ c_analyzeFrames \in AnalyzeOptions
    /\ c_camera \in {CHOOSE c \in Cameras : c.position = Zero3}
    /\ \E n \in 0..MaxSamples :
         \E fr \in [1..n -> 0..MaxFrameIdx] :
            c_gazeData = [k \in 1..n |->
                             Gaze(fr[k], k, Vec(0, 1, 2), EyeSeeing, EyeSeeing)]
    /\ c_poses \in {p \in PoseTables : \A f \in DOMAIN p : p[f].R = Identity3}
    /\ c_nRead = 0
    /\ c_gazes = <<>>
    /\ c_maxFrameIdx = 0
    /\ videoOpens = TRUE
    /\ x_ids = <<>> /\ x_tables = <<>> /\ x_settings = {}
    /\ x_popup = <<>> /\ x_export = <<>> /\ pcExp = "idle"
    /\ c_batch = 0 /\ c_key = ""
    /\ j_entries = <<>> /\ j_df = <<>> /\ pcJson = "idle"
    /\ g_recordings = <<>> /\ g_selected = <<>> /\ g_jobs = <<>>
    /\ g_queue = <<>> /\ g_pool = <<>> /\ g_popup = <<>>
    /\ a_paths = <<>> /\ a_offered = <<>> /\ pcAdd = "idle"
    /\ c_frame_idx = 0
    /\ c_sample = 0
    /\ c_rows = <<>>
    /\ c_stopAllProcessing = FALSE
    /\ pcGaze = "readGaze"
    /\ targets = <<>> /\ fix = <<>> /\ used = <<>> /\ selected = <<>>
    /\ ti = 0 /\ df = <<>> /\ pcFix = "idle"
    /\ f_analyzeFrames = <<>> /\ f_gazeWorld = <<>> /\ f_ival = 0
    /\ f_data = <<>> /\ f_file = <<>>
    /\ b_frame_idx = 0 /\ b_ids = <<>> /\ b_video = <<>> /\ b_rows = <<>>
    /\ pcDet = "idle"
    /\ o_analyzeFrames = <<>> /\ o_gazeWorld = <<>> /\ o_poses = <<>>
    /\ o_targets = <<>> /\ o_ival = 0 /\ o_file = <<>> /\ pcOff = "idle"

(* one frame with a pose, no display; the first sample holds any data of
   the eyes and any 3D gaze point, the samples after it a few of them *)
InitGazeVal ==
    /\ c_showVisualization = FALSE
    /\ c_showOnlyIntervals = FALSE
    /\ c_analyzeFrames = <<>>
    /\ c_camera \in Cameras
    /\ \E n \in 1..MaxValSamples :
         \E first \in SampleData, rest \in [2..n -> FollowingSampleData] :
            c_gazeData = [k \in 1..n |->
                             LET d == IF k = 1 THEN first ELSE rest[k]
                             IN  Gaze(0, k, d[1], d[2], d[3])]
    /\ c_poses \in [{0} -> Poses]
    /\ c_nRead = 0
    /\ c_gazes = <<>>
    /\ c_maxFrameIdx = 0
    /\ videoOpens = TRUE
    /\ x_ids = <<>> /\ x_tables = <<>> /\ x_settings = {}
    /\ x_popup = <<>> /\ x_export = <<>> /\ pcExp = "idle"
    /\ c_batch = 0 /\ c_key = ""
    /\ j_entries = <<>> /\ j_df = <<>> /\ pcJson = "idle"
    /\ g_recordings = <<>> /\ g_selected = <<>> /\ g_jobs = <<>>
    /\ g_queue = <<>> /\ g_pool = <<>> /\ g_popup = <<>>
    /\ a_paths = <<>> /\ a_offered = <<>> /\ pcAdd = "idle"
    /\ c_frame_idx = 0
    /\ c_sample = 0
    /\ c_rows = <<>>
    /\ c_stopAllProcessing = FALSE
    /\ pcGaze = "readGaze"
    /\ targets = <<>> /\ fix = <<>> /\ used = <<>> /\ selected = <<>>
    /\ ti = 0 /\ df = <<>> /\ pcFix = "idle"
    /\ f_analyzeFrames = <<>> /\ f_gazeWorld = <<>> /\ f_ival = 0
    /\ f_data = <<>> /\ f_file = <<>>
    /\ b_frame_idx = 0 /\ b_ids = <<>> /\ b_video = <<>> /\ b_rows = <<>>
    /\ pcDet = "idle"
    /\ o_analyzeFrames = <<>> /\ o_gazeWorld = <<>> /\ o_poses = <<>>
    /\ o_targets = <<>> /\ o_ival = 0 /\ o_file = <<>> /\ pcOff = "idle"

(* either table is written: the detection loop starts on its video, or the
   gaze stage starts on a recording of two posed frames whose samples hold
   present and missing eye data, with or without display *)
InitTables ==
    /\ targets = <<>> /\ fix = <<>> /\ used = <<>> /\ selected = <<>>
    /\ ti = 0 /\ df = <<>> /\ pcFix = "idle"
    /\ f_analyzeFrames = <<>> /\ f_gazeWorld = <<>> /\ f_ival = 0
    /\ f_data = <<>> /\ f_file = <<>>
    /\ o_analyzeFrames = <<>> /\ o_gazeWorld = <<>> /\ o_poses = <<>>
    /\ o_targets = <<>> /\ o_ival = 0 /\ o_file = <<>> /\ pcOff = "idle"
    /\ \/ /\ b_frame_idx = 0 /\ b_ids = None /\ b_video = <<>>
          /\ b_rows = <<>> /\ pcDet = "read"
          /\ c_showVisualization = FALSE /\ c_showOnlyIntervals = FALSE
          /\ c_analyzeFrames = <<>> /\ c_camera = <<>> /\ c_gazeData = <<>>
          /\ c_poses = <<>> /\ c_nRead = 0 /\ c_gazes = <<>>
          /\ c_maxFrameIdx = 0 /\ c_frame_idx = 0 /\ c_sample = 0
          /\ videoOpens = TRUE
          /\ x_ids = <<>> /\ x_tables = <<>> /\ x_settings = {}
          /\ x_popup = <<>> /\ x_export = <<>> /\ pcExp = "idle"
          /\ c_batch = 0 /\ c_key = ""
          /\ j_entries = <<>> /\ j_df = <<>> /\ pcJson = "idle"
          /\ g_recordings = <<>> /\ g_selected = <<>> /\ g_jobs = <<>>
          /\ g_queue = <<>> /\ g_pool = <<>> /\ g_popup = <<>>
          /\ a_paths = <<>> /\ a_offered = <<>> /\ pcAdd = "idle"
          /\ c_rows = <<>> /\ c_stopAllProcessing = FALSE /\ pcGaze = "idle"
       \/ /\ b_frame_idx = 0 /\ b_ids = <<>> /\ b_video = <<>>
          /\ b_rows = <<>> /\ pcDet = "idle"
          /\ c_showVisualization \in BOOLEAN
          /\ c_showOnlyIntervals \in BOOLEAN
          /\ c_analyzeFrames \in AnalyzeOptions
          /\ c_camera \in {CHOOSE c \in Cameras : c.position = Zero3}
          /\ \E n \in 1..MaxValSamples :
               \E fr \in [1..n -> 0..1], d \in [1..n -> FollowingSampleData] :
                  c_gazeData = [k \in 1..n |->
                                   Gaze(fr[k], k, d[k][1], d[k][2], d[k][3])]
          /\ c_poses \in [0..1 -> Poses]
          /\ c_nRead = 0 /\ c_gazes = <<>> /\ c_maxFrameIdx = 0
          /\ videoOpens = TRUE
          /\ x_ids = <<>> /\ x_tables = <<>> /\ x_settings = {}
          /\ x_popup = <<>> /\ x_export = <<>> /\ pcExp = "idle"
          /\ c_batch = 0 /\ c_key = ""
          /\ j_entries = <<>> /\ j_df = <<>> /\ pcJson = "idle"
          /\ g_recordings = <<>> /\ g_selected = <<>> /\ g_jobs = <<>>
          /\ g_queue = <<>> /\ g_pool = <<>> /\ g_popup = <<>>
          /\ a_paths = <<>> /\ a_offered = <<>> /\ pcAdd = "idle"
          /\ c_frame_idx = 0 /\ c_sample = 0 /\ c_rows = <<>>
          /\ c_stopAllProcessing = FALSE /\ pcGaze = "readGaze"

(* lines 113-130: one entry of gazeData.tsv *)
ReadGazeEntry ==
    /\ pcGaze = "readGaze"
    /\ c_nRead < Len(c_gazeData)
    /\ LET gaze == c_gazeData[c_nRead + 1]
       IN  /\ c_gazes' = AddGaze(c_gazes, gaze)
           /\ c_maxFrameIdx' = Max(c_maxFrameIdx, gaze.frame_idx)
    /\ c_nRead' = c_nRead + 1
    /\ UNCHANGED <<c_showVisualization, c_showOnlyIntervals, c_analyzeFrames,
                   c_camera, c_gazeData, c_poses, c_frame_idx, c_sample,
                   c_rows, c_stopAllProcessing, pcGaze>>
    /\ UNCHANGED <<varsFix, varsDet, varsOff, varsEnv, varsExp, varsBatch,
                   varsJson, varsGui>>

(* lines 133-157: the pose table is read, the output file gets its header *)
OpenOutput ==
    /\ pcGaze = "readGaze"
    /\ c_nRead = Len(c_gazeData)
    /\ c_rows' = <<>>
    /\ c_frame_idx' = 0
    /\ c_stopAllProcessing' = FALSE
    /\ pcGaze' = "frame"
    /\ UNCHANGED <<c_showVisualization, c_showOnlyIntervals, c_analyzeFrames,
                   c_camera, c_gazeData, c_poses, c_nRead, c_gazes,
                   c_maxFrameIdx, c_sample>>
    /\ UNCHANGED <<varsFix, varsDet, varsOff, varsEnv, varsExp, varsBatch,
                   varsJson, varsGui>>

(* cap.read(): a frame, or none at the end of the video; none from a
   capture that is not open *)
CapRead(opened) == IF opened THEN BOOLEAN ELSE {FALSE}

(* lines 158-167 (d_gazeToBoard.py 67-90): the head of the frame loop; with
   the display on the next video frame is read, which may be the end *)
FrameStart ==
    /\ pcGaze = "frame"
    /\ IF c_frame_idx > c_maxFrameIdx
       THEN /\ pcGaze' = "closing"
            /\ UNCHANGED <<c_frame_idx, c_sample>>
       ELSE IF c_showVisualization
            THEN \E ret \in CapRead(videoOpens) :
                    IF ~ret \/ (hasAnalyzeFrames
                                /\ c_frame_idx > c_analyzeFrames[Len(c_analyzeFrames)])
                    THEN /\ pcGaze' = "closing"
                         /\ UNCHANGED <<c_frame_idx, c_sample>>
                    ELSE IF hasAnalyzeFrames /\ ~inIval(c_frame_idx)
                         THEN /\ c_frame_idx' = c_frame_idx + 1
                              /\ UNCHANGED <<pcGaze, c_sample>>
                         ELSE /\ pcGaze' = "samples"
                              /\ c_sample' = 0
                              /\ UNCHANGED c_frame_idx
            ELSE /\ pcGaze' = "samples"
                 /\ c_sample' = 0
                 /\ UNCHANGED c_frame_idx
    /\ UNCHANGED <<c_showVisualization, c_showOnlyIntervals, c_analyzeFrames,
                   c_camera, c_gazeData, c_poses, c_nRead, c_gazes,
                   c_maxFrameIdx, c_rows, c_stopAllProcessing>>
    /\ UNCHANGED <<varsFix, varsDet, varsOff, varsEnv, varsExp, varsBatch,
                   varsJson, varsGui>>

SamplesOf(frame_idx) ==
    IF frame_idx \in DOMAIN c_gazes THEN c_gazes[frame_idx] ELSE <<>>

(* lines 168-263 (d_gazeToBoard.py 92-117): one sample of the frame *)
ProcessSample ==
    /\ pcGaze = "samples"
    /\ c_sample < Len(SamplesOf(c_frame_idx))
    /\ c_rows' = c_rows \o RowsOfSample(c_frame_idx,
                                         SamplesOf(c_frame_idx)[c_sample + 1],
                                         c_poses, c_camera)
    /\ c_sample' = c_sample + 1
    /\ UNCHANGED <<c_showVisualization, c_showOnlyIntervals, c_analyzeFrames,
                   c_camera, c_gazeData, c_poses, c_nRead, c_gazes,
                   c_maxFrameIdx, c_frame_idx, c_stopAllProcessing, pcGaze>>
    /\ UNCHANGED <<varsFix, varsDet, varsOff, varsEnv, varsExp, varsBatch,
                   varsJson, varsGui>>

(* the key is read at any point of the frame *)
FrameDoneAnytime == TRUE

(* lines 168-169 (d_gazeToBoard.py 92-93): the loop over the samples of the
   frame has ended *)
FrameDone == c_sample = Len(SamplesOf(c_frame_idx))

(* every key that ends the recording also ends the batch *)
QuitsAllOnAnyEnd(key) == key \in {"q", "n"}

(* lines 280-283 (d_gazeToBoard.py 145-148): 'q' quits fully *)
QuitsAll(key) == key = "q"

(* lines 280-286 (d_gazeToBoard.py 145-151): 'q' and 'n' leave the loop *)
EndsRecording(key) == key \in {"q", "n"}

(* lines 265-291 (d_gazeToBoard.py 119-152): the frame is shown and the key
   read; without display the loop goes on *)
FrameEnd ==
    /\ pcGaze = "samples"
    /\ FrameDone
    /\ IF c_showVisualization
       THEN \E key \in {"q", "n", "s", "other"} :
               IF EndsRecording(key)
               THEN /\ c_stopAllProcessing' =
                          (c_stopAllProcessing \/ QuitsAll(key))
                    /\ c_key' = key
                    /\ pcGaze' = "closing"
                    /\ UNCHANGED c_frame_idx
               ELSE /\ c_frame_idx' = c_frame_idx + 1
                    /\ pcGaze' = "frame"
                    /\ UNCHANGED <<c_stopAllProcessing, c_key>>
       ELSE /\ c_frame_idx' = c_frame_idx + 1
            /\ pcGaze' = "frame"
            /\ UNCHANGED <<c_stopAllProcessing, c_key>>
    /\ UNCHANGED <<c_showVisualization, c_showOnlyIntervals, c_analyzeFrames,
                   c_camera, c_gazeData, c_poses, c_nRead, c_gazes,
                   c_maxFrameIdx, c_sample, c_rows, c_batch>>
    /\ UNCHANGED <<varsFix, varsDet, varsOff, varsEnv, varsExp, varsJson,
                   varsGui>>

(* lines 293-298: the file is closed, stopAllProcessing returned *)
CloseOutput ==
    /\ pcGaze = "closing"
    /\ pcGaze' = "done"
    /\ UNCHANGED <<c_showVisualization, c_showOnlyIntervals, c_analyzeFrames,
                   c_camera, c_gazeData, c_poses, c_nRead, c_gazes,
                   c_maxFrameIdx, c_frame_idx, c_sample, c_rows,
                   c_stopAllProcessing>>
    /\ UNCHANGED <<varsFix, varsDet, varsOff, varsEnv, varsExp, varsBatch,
                   varsJson, varsGui>>

NextGaze ==
    ReadGazeEntry \/ OpenOutput \/ FrameStart \/ ProcessSample \/ FrameEnd
    \/ CloseOutput

-----------------------------------------------------------------------------
(* e1_computeOffsetsToTargets.py *)

MaxOffSamples == 2
MaxOffTargets == 2

(* An angle is kept as <<sign of the dot product, cos^2 as a fraction>>, a
   bearing as the direction (dx, dy) scaled to |dx| + |dy| = 1; an offset
   component is angle * cos(bearing) or angle * sin(bearing), kept as the
   tuple of its angle, its bearing and which of the two it is, with one
   form for not-a-number and one for zero. *)
NaNAngle == <<0, 0, 0>>
ZeroAngle == <<1, 1, 1>>
NaNComp == <<0, 0, 0, 0, 0, 0, 0, 0>>
ZeroComp == <<1, 1, 1, 0, 0, 0, 0, 0>>
IsNaNComp(c) == c[3] = 0
NaNOffset == <<NaNComp, NaNComp>>
ZeroOffset == <<ZeroComp, ZeroComp>>

Sign(a) == IF a > 0 THEN 1 ELSE IF a < 0 THEN 0 - 1 ELSE 0

(* utils.angle_between, which is not part of the sources at hand: per the
   design, the 3D angle between two vectors; not-a-number in gives
   not-a-number out *)
angle_between(v1, v2) ==
    LET dot == Dot(v1, v2)
        c2 == Div(Mul(dot, dot), Mul(Dot(v1, v1), Dot(v2, v2)))
    IN  IF IsNaN(c2) THEN NaNAngle ELSE <<Sign(dot[1]), c2[1], c2[2]>>

(* a bearing that is undefined where both differences are 0 *)
atan2UndefinedAtOrigin(y, x) ==
    IF IsNaN(y) \/ IsNaN(x) \/ (y[1] = 0 /\ x[1] = 0) THEN <<NaN, NaN>>
    ELSE LET m == Add(Q(Abs(x[1]), x[2]), Q(Abs(y[1]), y[2]))
         IN  <<Div(x, m), Div(y, m)>>

(* math.atan2(y, x): atan2(0, 0) is 0, the bearing of the direction (1, 0) *)
atan2(y, x) ==
    IF IsNaN(y) \/ IsNaN(x) THEN <<NaN, NaN>>
    ELSE IF y[1] = 0 /\ x[1] = 0 THEN <<R(1), R(0)>>
    ELSE LET m == Add(Q(Abs(x[1]), x[2]), Q(Abs(y[1]), y[2]))
         IN  <<Div(x, m), Div(y, m)>>

(* line 109: ang2D * cos(onBoardAngle) (part 0), ang2D * sin(onBoardAngle)
   (part 1) *)
OffsetComp(ang2D, onBoardAngle, part) ==
    IF ang2D = NaNAngle \/ IsNaN(onBoardAngle[1]) THEN NaNComp
    ELSE IF ang2D = ZeroAngle THEN ZeroComp
    ELSE <<ang2D[1], ang2D[2], ang2D[3],
           onBoardAngle[1][1], onBoardAngle[1][2],
           onBoardAngle[2][1], onBoardAngle[2][2], part + 1>>

(* the board pose of the frames that have one *)
OffPose == [R |-> Identity3, tVec |-> Vec(0, 0, 2)]
OffCamera == [R |-> Identity3, position |-> Zero3]

(* BoardPose.planeToCamPose: a board-plane point in camera space *)
PlaneToCam(pose, p) == VAdd(MatVec(pose.R, <<p[1], p[2], R(0)>>), pose.tVec)

(* a sample as read from gazeWorldPos.tsv (lines 57-67), made of the data of
   the eyes, the 3D gaze point and the point the homography gives; without a
   pose only the board point of the homography is there *)
WorldSample(frame_idx, ts, hasPose, l, r, world3D, hom) ==
    LET g == Gaze(frame_idx, ts, world3D, l, r)
        row == WriteDat(frame_idx, g, OffPose, OffCamera)
        part(cols) == [k \in 1..Cardinality(cols) |->
                          IF hasPose THEN row[k - 1 + CHOOSE c \in cols :
                                                  \A d \in cols : c <= d]
                          ELSE NaN]
    IN  [frame_idx |-> frame_idx, ts |-> ts,
         oriLeft |-> part(15..17), gaze3DLeft |-> part(18..20),
         gaze2DLeft |-> part(21..22),
         oriRight |-> part(23..25), gaze3DRight |-> part(26..28),
         gaze2DRight |-> part(29..30),
         gaze3DRay |-> part(10..12), gaze2DRay |-> part(13..14),
         gaze3DHomography |-> IF hasPose THEN PlaneToCam(OffPose, hom) ELSE NaNVec,
         gaze2DHomography |-> hom]

(* the kinds of sample offered: both eyes and a gaze point on the first
   target; the right eye missing; no eye, a gaze ray along the board *)
OffKinds ==
    {<<EyeSeeing, EyeSeeing, Vec(0, 1, 2), <<R(0), R(1)>> >>,
     <<EyeSeeing, EyeMissing, Vec(1, 1, 2), <<R(1), R(2)>> >>,
     <<EyeMissing, EyeMissing, Vec(1, 0, 0), <<R(0), R(1)>> >>}

(* the targets of the board: ids that differ from their position in the
   dictionary, centres in board space; the first one at (0, 1) *)
OffTarget(k) == <<7 - k, <<R(k - 1), R(1)>> >>

OffAnalyzeOptions == {<<>>, <<0, 0>>, <<0, 1>>, <<0, 0, 1, 1>>, <<1, 1>>}

(* lines 28-50: board, intervals, poses and gaze are there to be read; the
   output file may hold the lines of an earlier run *)
InitOff ==
    /\ o_analyzeFrames \in OffAnalyzeOptions
    /\ \E F \in SUBSET (0..1) : o_poses = [f \in F |-> OffPose]
    /\ \E n \in 0..MaxOffSamples :
         \E fr \in [1..n -> 0..1], kd \in [1..n -> OffKinds] :
            /\ \A k \in 1..(n - 1) : fr[k] <= fr[k + 1]
            /\ o_gazeWorld =
                 [k \in 1..n |->
                     WorldSample(fr[k], 10 * k, fr[k] \in DOMAIN o_poses,
                                 kd[k][1], kd[k][2], kd[k][3], kd[k][4])]
    /\ \E n \in 1..MaxOffTargets : o_targets = [k \in 1..n |-> OffTarget(k)]
    /\ o_ival = 0
    /\ o_file \in {<<>>, <<StaleLine>>}
    /\ pcOff = "start"
    /\ targets = <<>> /\ fix = <<>> /\ used = <<>> /\ selected = <<>>
    /\ ti = 0 /\ df = <<>> /\ pcFix = "idle"
    /\ f_analyzeFrames = <<>> /\ f_gazeWorld = <<>> /\ f_ival = 0
    /\ f_data = <<>> /\ f_file = <<>>
    /\ b_frame_idx = 0 /\ b_ids = <<>> /\ b_video = <<>> /\ b_rows = <<>>
    /\ pcDet = "idle"
    /\ c_showVisualization = FALSE /\ c_showOnlyIntervals = FALSE
    /\ c_analyzeFrames = <<>> /\ c_camera = <<>> /\ c_gazeData = <<>>
    /\ c_poses = <<>> /\ c_nRead = 0 /\ c_gazes = <<>> /\ c_maxFrameIdx = 0
    /\ videoOpens = TRUE
    /\ x_ids = <<>> /\ x_tables = <<>> /\ x_settings = {}
    /\ x_popup = <<>> /\ x_export = <<>> /\ pcExp = "idle"
    /\ c_batch = 0 /\ c_key = ""
    /\ j_entries = <<>> /\ j_df = <<>> /\ pcJson = "idle"
    /\ g_recordings = <<>> /\ g_selected = <<>> /\ g_jobs = <<>>
    /\ g_queue = <<>> /\ g_pool = <<>> /\ g_popup = <<>>
    /\ a_paths = <<>> /\ a_offered = <<>> /\ pcAdd = "idle"
    /\ c_frame_idx = 0 /\ c_sample = 0 /\ c_rows = <<>>
    /\ c_stopAllProcessing = FALSE /\ pcGaze = "idle"

(* lines 33-36: without coded intervals the recording is skipped *)
OffsetStart ==
    /\ pcOff = "start"
    /\ pcOff' = IF o_analyzeFrames = <<>> THEN "done" ELSE "interval"
    /\ UNCHANGED <<o_analyzeFrames, o_gazeWorld, o_poses, o_targets, o_ival,
                   o_file>>
    /\ UNCHANGED <<varsFix, varsDet, varsGaze, varsEnv, varsExp, varsBatch,
                   varsJson, varsGui>>

(* line 55: the samples of interval ival, counted from 0 *)
gazeWorldToAnal(gazeWorld, analyzeFrames, ival) ==
    SelectSeq(gazeWorld,
              LAMBDA s : /\ s.frame_idx >= analyzeFrames[ival * 2 + 1]
                         /\ s.frame_idx <= analyzeFrames[ival * 2 + 2])

(* the methods with the ray cast from the origin of the right eye *)
MethodDataRayFromRight(smp, e) ==
    CASE e = 0 -> [ori |-> smp.oriLeft, gaze |-> smp.gaze3DLeft,
                   gazeBoard |-> smp.gaze2DLeft]
      [] e = 1 -> [ori |-> smp.oriRight, gaze |-> smp.gaze3DRight,
                   gazeBoard |-> smp.gaze2DRight]
      [] e = 2 -> [ori |-> smp.oriRight, gaze |-> smp.gaze3DRay,
                   gazeBoard |-> smp.gaze2DRay]
      [] e = 3 -> [ori |-> Zero3, gaze |-> smp.gaze3DHomography,
                   gazeBoard |-> smp.gaze2DHomography]

(* lines 79-96: origin, gaze point and board point of method e *)
MethodData(smp, e) ==
    CASE e = 0 -> [ori |-> smp.oriLeft, gaze |-> smp.gaze3DLeft,
                   gazeBoard |-> smp.gaze2DLeft]
      [] e = 1 -> [ori |-> smp.oriRight, gaze |-> smp.gaze3DRight,
                   gazeBoard |-> smp.gaze2DRight]
      [] e = 2 -> [ori |-> Zero3, gaze |-> smp.gaze3DRay,
                   gazeBoard |-> smp.gaze2DRay]
      [] e = 3 -> [ori |-> Zero3, gaze |-> smp.gaze3DHomography,
                   gazeBoard |-> smp.gaze2DHomography]

(* lines 99-109: the offset of method e of a sample to a target *)
OffsetOf(smp, e, center, pose) ==
    LET d == MethodData(smp, e)
        target == PlaneToCam(pose, center)
        vGaze == VSub(d.gaze, d.ori)
        vTarget == VSub(target, d.ori)
        ang2D == angle_between(vTarget, vGaze)
        onBoardAngle == atan2(Sub(d.gazeBoard[2], center[2]),
                              Sub(d.gazeBoard[1], center[1]))
    IN  <<OffsetComp(ang2D, onBoardAngle, 0), OffsetComp(ang2D, onBoardAngle, 1)>>

(* lines 69-109: offset[s, e, ti, :] *)
OffsetArray(samples, poses, tgts) ==
    [s \in 0..(Len(samples) - 1) |->
        [e \in 0..3 |->
            [t \in 0..(Len(tgts) - 1) |->
                IF samples[s + 1].frame_idx \notin DOMAIN poses
                THEN NaNOffset
                ELSE OffsetOf(samples[s + 1], e, tgts[t + 1][2],
                              poses[samples[s + 1].frame_idx])]]]

(* np.unravel_index of n in an array of shape (d1, d2, d3) *)
Unravel3(n, d2, d3) == <<n \div (d2 * d3), (n \div d3) % d2, n % d3>>

(* lines 19-22: np.meshgrid(x, y, z) gives arrays of shape
   (len(y), len(x), len(z)) whose entry [i, j, k] is x[j], y[i], z[k]; they
   are stacked and reshaped to one row per entry *)
cartesian_product(x, y, z) ==
    [n \in 0..(Len(x) * Len(y) * Len(z) - 1) |->
        LET u == Unravel3(n, Len(x), Len(z))
        IN  <<x[u[2] + 1], y[u[1] + 1], z[u[3] + 1]>>]

(* np.arange(n) *)
arange(n) == [k \in 1..n |-> k - 1]

(* line 119 *)
map == <<"left", "right", "ray", "homography">>

(* lines 114-122: the data frame of an interval; entry names the element of
   offset that np.reshape(offset, (-1, 2)) puts in the row *)
OffsetRows(samples, offset, tgts, ival) ==
    LET S == Len(samples)
        T == Len(tgts)
        dat == cartesian_product(arange(4), arange(S), [k \in 1..T |-> tgts[k][1]])
    IN  [n \in 1..(4 * S * T) |->
            LET u == Unravel3(n - 1, 4, T)
            IN  [timestamp |-> samples[dat[n - 1][2] + 1].ts,
                 marker_interval |-> ival + 1,
                 eye |-> map[dat[n - 1][1] + 1],
                 target |-> dat[n - 1][3],
                 offset |-> offset[u[1]][u[2]][u[3]],
                 entry |-> u]]

OffsetColumns ==
    <<"timestamp", "marker_interval", "eye", "target", "offset_x", "offset_y">>

(* lines 54-124: one interval.  np.vstack of an empty list raises
   ValueError (line 57) *)
OffsetInterval ==
    /\ pcOff = "interval"
    /\ o_ival < Len(o_analyzeFrames) \div 2
    /\ LET samples == gazeWorldToAnal(o_gazeWorld, o_analyzeFrames, o_ival)
       IN  IF samples = <<>>
           THEN /\ pcOff' = "raised"
                /\ UNCHANGED <<o_ival, o_file>>
           ELSE /\ o_file' = to_csv(o_file, OffsetColumns,
                                    OffsetRows(samples,
                                               OffsetArray(samples, o_poses, o_targets),
                                               o_targets, o_ival),
                                    o_ival)
                /\ o_ival' = o_ival + 1
                /\ UNCHANGED pcOff
    /\ UNCHANGED <<o_analyzeFrames, o_gazeWorld, o_poses, o_targets>>
    /\ UNCHANGED <<varsFix, varsDet, varsGaze, varsEnv, varsExp, varsBatch,
                   varsJson, varsGui>>

(* the loop of line 54 has ended *)
OffsetEnd ==
    /\ pcOff = "interval"
    /\ o_ival = Len(o_analyzeFrames) \div 2
    /\ pcOff' = "done"
    /\ UNCHANGED <<o_analyzeFrames, o_gazeWorld, o_poses, o_targets, o_ival,
                   o_file>>
    /\ UNCHANGED <<varsFix, varsDet, varsGaze, varsEnv, varsExp, varsBatch,
                   varsJson, varsGui>>

NextOff == OffsetStart \/ OffsetInterval \/ OffsetEnd

-----------------------------------------------------------------------------
(* Opening the scene video: b_detectMarkers.py lines 121-127,
   c_gazeToBoard.py lines 100-106, process/d_gazeToBoard.py lines 44-49 *)

(* frames per second of a scene video *)
VideoFPS == 25

(* cap.get(cv2.CAP_PROP_FPS): 0.0 from a capture that is not open *)
CapGetFPS(opened) == IF opened THEN VideoFPS ELSE 0

(* a float division that yields a value for every divisor *)
FloatDivNeverRaises(d) == FALSE

(* 1000./fps: Python raises ZeroDivisionError on the divisor 0.0 *)
FloatDivRaises(d) == d = 0

(* b_detectMarkers.py lines 121-127: the video is opened; RuntimeError when
   it is not open afterwards *)
DetOpenVideo ==
    /\ pcDet = "open"
    /\ pcDet' = IF ~videoOpens THEN "raised" ELSE "read"
    /\ UNCHANGED <<b_frame_idx, b_ids, b_video, b_rows>>
    /\ UNCHANGED <<varsFix, varsGaze, varsOff, varsEnv, varsExp, varsBatch,
                   varsJson, varsGui>>

(* c_gazeToBoard.py lines 100-106: with the display on the video is opened
   and the time between two frames computed from its frame rate *)
GazeOpenVideo ==
    /\ pcGaze = "open"
    /\ pcGaze' = IF c_showVisualization /\ FloatDivRaises(CapGetFPS(videoOpens))
                 THEN "raised"
                 ELSE "readGaze"
    /\ UNCHANGED <<c_showVisualization, c_showOnlyIntervals, c_analyzeFrames,
                   c_camera, c_gazeData, c_poses, c_nRead, c_gazes,
                   c_maxFrameIdx, c_frame_idx, c_sample, c_rows,
                   c_stopAllProcessing>>
    /\ UNCHANGED <<varsFix, varsDet, varsOff, varsEnv, varsExp, varsBatch,
                   varsJson, varsGui>>

(* the detection stage or the gaze stage is started on a recording whose
   scene video can or cannot be opened *)
InitVideo ==
    /\ videoOpens \in BOOLEAN
    /\ targets = <<>> /\ fix = <<>> /\ used = <<>> /\ selected = <<>>
    /\ ti = 0 /\ df = <<>> /\ pcFix = "idle"
    /\ f_analyzeFrames = <<>> /\ f_gazeWorld = <<>> /\ f_ival = 0
    /\ f_data = <<>> /\ f_file = <<>>
    /\ o_analyzeFrames = <<>> /\ o_gazeWorld = <<>> /\ o_poses = <<>>
    /\ o_targets = <<>> /\ o_ival = 0 /\ o_file = <<>> /\ pcOff = "idle"
    /\ x_ids = <<>> /\ x_tables = <<>> /\ x_settings = {}
    /\ x_popup = <<>> /\ x_export = <<>> /\ pcExp = "idle"
    /\ c_batch = 0 /\ c_key = ""
    /\ j_entries = <<>> /\ j_df = <<>> /\ pcJson = "idle"
    /\ g_recordings = <<>> /\ g_selected = <<>> /\ g_jobs = <<>>
    /\ g_queue = <<>> /\ g_pool = <<>> /\ g_popup = <<>>
    /\ a_paths = <<>> /\ a_offered = <<>> /\ pcAdd = "idle"
    /\ \/ /\ b_frame_idx = 0 /\ b_ids = None /\ b_video = <<>>
          /\ b_rows = <<>> /\ pcDet = "open"
          /\ c_showVisualization = FALSE /\ c_showOnlyIntervals = FALSE
          /\ c_analyzeFrames = <<>> /\ c_camera = <<>> /\ c_gazeData = <<>>
          /\ c_poses = <<>> /\ c_nRead = 0 /\ c_gazes = <<>>
          /\ c_maxFrameIdx = 0 /\ c_frame_idx = 0 /\ c_sample = 0
          /\ c_rows = <<>> /\ c_stopAllProcessing = FALSE /\ pcGaze = "idle"
       \/ /\ b_frame_idx = 0 /\ b_ids = <<>> /\ b_video = <<>>
          /\ b_rows = <<>> /\ pcDet = "idle"
          /\ c_showVisualization \in BOOLEAN
          /\ c_showOnlyIntervals \in BOOLEAN
          /\ c_analyzeFrames \in AnalyzeOptions
          /\ c_camera = OffCamera
          /\ \E n \in 1..MaxValSamples :
               \E fr \in [1..n -> 0..1] :
                  c_gazeData = [k \in 1..n |->
                                   Gaze(fr[k], k, Vec(0, 1, 2), EyeSeeing,
                                        EyeSeeing)]
          /\ c_poses = [f \in 0..1 |-> OffPose]
          /\ c_nRead = 0 /\ c_gazes = <<>> /\ c_maxFrameIdx = 0
          /\ c_frame_idx = 0 /\ c_sample = 0 /\ c_rows = <<>>
          /\ c_stopAllProcessing = FALSE /\ pcGaze = "open"

NextVideo == DetOpenVideo \/ GazeOpenVideo \/ NextDet \/ NextGaze

-----------------------------------------------------------------------------
(* GUI/_impl/callbacks.py: export_data_quality, _export_data_quality *)

MaxRecs == 2
MaxDQRows == 2

(* members of DataQualityType found in the tables, with their enum value *)
DQTypes == {"pose_vidpos_homography", "pose_vidpos_ray", "pose_left_eye"}
DQValue(t) ==
    CASE t = "pose_vidpos_homography" -> 2
      [] t = "pose_vidpos_ray" -> 3
      [] t = "pose_left_eye" -> 5

(* the targets of the poster that the tables name *)
DQTargets == {1, 2}

(* the accuracy a table holds for a type and target; the left eye has no
   data for the second target *)
DQAcc(t, g) ==
    IF t = "pose_left_eye" /\ g = 2 THEN NaN ELSE R(g * g + DQValue(t))

(* a row of a recording's dataQuality.tsv *)
DQRow(i, t, g) ==
    [marker_interval |-> i, type |-> t, target |-> g, order |-> g,
     acc |-> DQAcc(t, g)]

DQKeys == {1} \X DQTypes \X DQTargets

DQKeyLess(a, b) ==
    \/ a[1] < b[1]
    \/ a[1] = b[1] /\ DQValue(a[2]) < DQValue(b[2])
    \/ a[1] = b[1] /\ a[2] = b[2] /\ a[3] < b[3]

(* a table holds one row per (interval, type, target) *)
RECURSIVE DQTable(_)
DQTable(S) ==
    IF S = {} THEN <<>>
    ELSE LET k == CHOOSE x \in S : \A y \in S \ {x} : DQKeyLess(x, y)
         IN  <<DQRow(k[1], k[2], k[3])>> \o DQTable(S \ {k})

DQTables(m) == {DQTable(S) : S \in {X \in SUBSET DQKeys : Cardinality(X) <= m}}

(* pd.read_csv(f).assign(recording = name) *)
ReadAssign(rows, name) ==
    [n \in 1..Len(rows) |->
        [recording |-> name, marker_interval |-> rows[n].marker_interval,
         type |-> rows[n].type, target |-> rows[n].target,
         order |-> rows[n].order, acc |-> rows[n].acc]]

(* pd.concat(..., ignore_index = True) of the tables of recordings k.. *)
RECURSIVE Concat(_, _, _)
Concat(ids, tables, k) ==
    IF k > Len(ids) THEN <<>>
    ELSE ReadAssign(tables[k], ids[k]) \o Concat(ids, tables, k + 1)

(* a test that takes every DataFrame to hold rows *)
DfEmptyNever(d) == FALSE

(* line 287: df.empty *)
DfEmpty(d) == Len(d) = 0

(* sorted(..., key = lambda dq: dq.value) *)
RECURSIVE SortedByValue(_)
SortedByValue(S) ==
    IF S = {} THEN <<>>
    ELSE LET t == CHOOSE x \in S : \A y \in S : DQValue(x) <= DQValue(y)
         IN  <<t>> \o SortedByValue(S \ {t})

(* the labels of an index level, in ascending order *)
RECURSIVE SortedInts(_)
SortedInts(S) ==
    IF S = {} THEN <<>>
    ELSE LET t == CHOOSE x \in S : \A y \in S : x <= y
         IN  <<t>> \o SortedInts(S \ {t})

(* lines 300-325: the types ticked when the popup opens; <<>> when there is
   no type to fall back on (IndexError, line 325) *)
DefaultSel(dq_types, settings) ==
    LET has(t) == \E n \in 1..Len(dq_types) : dq_types[n] = t
        bySettings == [n \in 1..Len(dq_types) |-> dq_types[n] \in settings]
    IN  IF \E n \in 1..Len(dq_types) : bySettings[n]
        THEN bySettings
        ELSE IF has("pose_vidpos_ray")
        THEN [n \in 1..Len(dq_types) |-> dq_types[n] = "pose_vidpos_ray"]
        ELSE IF has("pose_vidpos_homography")
        THEN [n \in 1..Len(dq_types) |-> dq_types[n] = "pose_vidpos_homography"]
        ELSE [n \in 1..Len(dq_types) |-> n = 1]

(* lines 294-303: pop_data as
   <<dq_types, dq_types_sel, targets, targets_sel, targets_avg>> *)
PopData(d, settings) ==
    LET dq_types == SortedByValue({d[n].type : n \in 1..Len(d)})
        tgts == SortedInts({d[n].target : n \in 1..Len(d)})
    IN  <<dq_types, DefaultSel(dq_types, settings),
          tgts, [n \in 1..Len(tgts) |-> TRUE], FALSE>>

(* the GUI has recordings selected whose data quality was computed; no
   export file exists, or one of an earlier export *)
InitExport ==
    /\ \E n \in 1..MaxRecs :
          /\ x_ids = [k \in 1..n |-> 10 + k]
          /\ x_tables \in {t \in [1..n -> DQTables(MaxDQRows)] :
                              \A k \in 2..n : Len(t[k]) <= 1}
    /\ x_settings \in {{}, {"pose_left_eye"}}
    /\ x_popup = <<>>
    /\ x_export \in {<<>>, <<StaleLine>>}
    /\ pcExp = "start"
    /\ videoOpens = TRUE
    /\ c_batch = 0 /\ c_key = ""
    /\ j_entries = <<>> /\ j_df = <<>> /\ pcJson = "idle"
    /\ g_recordings = <<>> /\ g_selected = <<>> /\ g_jobs = <<>>
    /\ g_queue = <<>> /\ g_pool = <<>> /\ g_popup = <<>>
    /\ a_paths = <<>> /\ a_offered = <<>> /\ pcAdd = "idle"
    /\ targets = <<>> /\ fix = <<>> /\ used = <<>> /\ selected = <<>>
    /\ ti = 0 /\ df = <<>> /\ pcFix = "idle"
    /\ f_analyzeFrames = <<>> /\ f_gazeWorld = <<>> /\ f_ival = 0
    /\ f_data = <<>> /\ f_file = <<>>
    /\ b_frame_idx = 0 /\ b_ids = <<>> /\ b_video = <<>> /\ b_rows = <<>>
    /\ pcDet = "idle"
    /\ c_showVisualization = FALSE /\ c_showOnlyIntervals = FALSE
    /\ c_analyzeFrames = <<>> /\ c_camera = <<>> /\ c_gazeData = <<>>
    /\ c_poses = <<>> /\ c_nRead = 0 /\ c_gazes = <<>> /\ c_frame_idx = 0
    /\ c_sample = 0 /\ c_rows = <<>> /\ c_stopAllProcessing = FALSE
    /\ c_maxFrameIdx = 0 /\ pcGaze = "idle"
    /\ o_analyzeFrames = <<>> /\ o_gazeWorld = <<>> /\ o_poses = <<>>
    /\ o_targets = <<>> /\ o_ival = 0 /\ o_file = <<>> /\ pcOff = "idle"

(* lines 282-337: the tables are collected; without rows the call returns,
   otherwise the popup is pushed.  The lines after 288 run on a DataFrame
   without rows end in the IndexError of line 325 *)
export_data_quality ==
    /\ pcExp = "start"
    /\ LET d == Concat(x_ids, x_tables, 1)
       IN  IF DfEmpty(d)
           THEN /\ pcExp' = "done"
                /\ UNCHANGED x_popup
           ELSE IF d = <<>>
           THEN /\ pcExp' = "raised"
                /\ UNCHANGED x_popup
           ELSE /\ x_popup' = PopData(d, x_settings)
                /\ pcExp' = "popup"
    /\ UNCHANGED <<x_ids, x_tables, x_settings, x_export>>
    /\ UNCHANGED <<varsFix, varsDet, varsGaze, varsOff, varsEnv, varsBatch,
                   varsJson, varsGui>>

(* the labels of a popup list whose tick is off *)
Unticked(labels, sel) == {labels[n] : n \in {k \in 1..Len(labels) : ~sel[k]}}

(* a drop that removes no row *)
DropKeepsAll(d, field, labels) == d

(* df.drop(index = labels, level = field) *)
Drop(d, field, labels) == SelectSeq(d, LAMBDA r : r[field] \notin labels)

(* mean() of a column: NaN entries are skipped, a column of NaN gives NaN *)
RECURSIVE ColSum(_)
ColSum(v) == IF v = <<>> THEN R(0) ELSE Add(Head(v), ColSum(Tail(v)))
Mean(v) ==
    LET w == SelectSeq(v, LAMBDA x : ~IsNaN(x))
    IN  IF w = <<>> THEN NaN ELSE Div(ColSum(w), R(Len(w)))

GroupKey(r) == <<r.recording, r.marker_interval, r.type>>

GroupKeyLess(a, b) ==
    \/ a[1] < b[1]
    \/ a[1] = b[1] /\ a[2] < b[2]
    \/ a[1] = b[1] /\ a[2] = b[2] /\ DQValue(a[3]) < DQValue(b[3])

(* line 348: drop(columns = 'order').groupby([...], observed = True).mean():
   one row per group that has rows, the groups in ascending order *)
RECURSIVE GroupMean(_, _)
GroupMean(d, G) ==
    IF G = {} THEN <<>>
    ELSE LET g == CHOOSE x \in G : \A y \in G \ {x} : GroupKeyLess(x, y)
             rows == SelectSeq(d, LAMBDA r : GroupKey(r) = g)
         IN  <<[recording |-> g[1], marker_interval |-> g[2], type |-> g[3],
                acc |-> Mean([n \in 1..Len(rows) |-> rows[n].acc])]>>
             \o GroupMean(d, G \ {g})

(* float_format = "%.3f", na_rep = 'nan' *)
Fmt3(x) ==
    IF IsNaN(x) THEN NaN ELSE Q((2000 * x[1] + x[2]) \div (2 * x[2]), 1000)

FmtRows(d) == [n \in 1..Len(d) |-> [d[n] EXCEPT !.acc = Fmt3(@)]]

ExportColumns(avg) ==
    IF avg THEN <<"recording", "marker_interval", "type", "acc">>
    ELSE <<"recording", "marker_interval", "type", "target", "order", "acc">>

(* lines 339-351 *)
ExportedFile(file, d, pop) ==
    LET d1 == IF \A n \in 1..Len(pop[2]) : pop[2][n] THEN d
              ELSE Drop(d, "type", Unticked(pop[1], pop[2]))
        d2 == IF \A n \in 1..Len(pop[4]) : pop[4][n] THEN d1
              ELSE Drop(d1, "target", Unticked(pop[3], pop[4]))
        d3 == IF pop[5]
              THEN GroupMean(d2, {GroupKey(d2[n]) : n \in 1..Len(d2)})
              ELSE d2
    IN  to_csv(file, ExportColumns(pop[5]), FmtRows(d3), 0)

(* the user sets the ticks of the popup and presses Continue, lines
   339-351: the table is filtered, averaged when asked for, and written to
   the project's dataQuality.tsv *)
PopupContinue ==
    /\ pcExp = "popup"
    /\ \E dq_types_sel \in [1..Len(x_popup[1]) -> BOOLEAN],
          targets_sel \in [1..Len(x_popup[3]) -> BOOLEAN],
          targets_avg \in BOOLEAN :
          LET pop == <<x_popup[1], dq_types_sel, x_popup[3], targets_sel,
                       targets_avg>>
          IN  /\ x_popup' = pop
              /\ x_export' = ExportedFile(x_export,
                                          Concat(x_ids, x_tables, 1), pop)
    /\ pcExp' = "exported"
    /\ UNCHANGED <<x_ids, x_tables, x_settings>>
    /\ UNCHANGED <<varsFix, varsDet, varsGaze, varsOff, varsEnv, varsBatch,
                   varsJson, varsGui>>

(* the Cancel button *)
PopupCancel ==
    /\ pcExp = "popup"
    /\ pcExp' = "done"
    /\ UNCHANGED <<x_ids, x_tables, x_settings, x_popup, x_export>>
    /\ UNCHANGED <<varsFix, varsDet, varsGaze, varsOff, varsEnv, varsBatch,
                   varsJson, varsGui>>

NextExport == export_data_quality \/ PopupContinue \/ PopupCancel

-----------------------------------------------------------------------------
(* GUI/_impl/callbacks.py: process_recording, cancel_processing_recordings,
   remove_recording *)

MaxGuiRecs == 2
MaxJobs == 2

(* the members of Task a recording's state takes *)
Tasks ==
    {"Not_Imported", "Imported", "Coded", "Markers_Detected",
     "Gaze_Tranformed_To_World", "Target_Offsets_Computed",
     "Fixation_Intervals_Determined", "Data_Quality_Calculated", "Unknown"}

(* a table that goes from Imported straight to detection *)
NextTaskSkipsCoding(t) ==
    CASE t = "Not_Imported" -> "Imported"
      [] t = "Imported" -> "Markers_Detected"
      [] t = "Coded" -> "Markers_Detected"
      [] OTHER -> "Unknown"

(* lines 183-207: the task to do for a recording whose state is t *)
NextTask(t) ==
    CASE t = "Not_Imported" -> "Imported"
      [] t = "Imported" -> "Coded"
      [] t = "Coded" -> "Markers_Detected"
      [] t = "Markers_Detected" -> "Gaze_Tranformed_To_World"
      [] t = "Gaze_Tranformed_To_World" -> "Target_Offsets_Computed"
      [] t = "Target_Offsets_Computed" -> "Fixation_Intervals_Determined"
      [] t = "Fixation_Intervals_Determined" -> "Data_Quality_Calculated"
      [] OTHER -> "Unknown"

(* lines 212-251: the tasks that have a function to run *)
HasFun(task) ==
    task \in {"Imported", "Coded", "Markers_Detected",
              "Gaze_Tranformed_To_World", "Target_Offsets_Computed",
              "Fixation_Intervals_Determined", "Data_Quality_Calculated"}

(* every task is launched at once *)
ShouldLaunchAlways(task, jobs) == TRUE

(* line 258 *)
ShouldLaunch(task, jobs) ==
    task # "Coded" \/ ~(\E j \in DOMAIN jobs : jobs[j].task = "Coded")

(* d[k] = v and del d[k] of a dict *)
DictSet(d, k, v) == [x \in DOMAIN d \cup {k} |-> IF x = k THEN v ELSE d[x]]
DictDel(d, k) == [x \in DOMAIN d \ {k} |-> d[x]]

(* process_pool.run: the job is started and its id returned *)
PoolRun(pool, rec) == Append(pool, [rec |-> rec, state |-> "running"])

(* process_pool.cancel_job *)
PoolCancel(pool, id) == [pool EXCEPT ![id].state = "cancelled"]

(* JobDescription(id, rec, project_path, task, chain); id 0 is None *)
JobDescription(id, task) == [id |-> id, task |-> task]

(* the project holds a recording in any state and further ones that were
   imported, the first of them ticked in the list; no job was started yet *)
InitJobs ==
    /\ \E n \in 1..MaxGuiRecs :
          /\ g_recordings \in
                {r \in [1..n -> [task : Tasks, source_directory : 1..n]] :
                    /\ \A k \in 1..n : r[k].source_directory = k
                    /\ \A k \in 2..n : r[k].task = "Imported"}
          /\ g_selected = [k \in 1..n |-> k = 1]
    /\ g_jobs = <<>> /\ g_queue = <<>> /\ g_pool = <<>> /\ g_popup = <<>>
    /\ a_paths = <<>> /\ a_offered = <<>> /\ pcAdd = "idle"
    /\ c_batch = 0 /\ c_key = ""
    /\ j_entries = <<>> /\ j_df = <<>> /\ pcJson = "idle"
    /\ x_ids = <<>> /\ x_tables = <<>> /\ x_settings = {}
    /\ x_popup = <<>> /\ x_export = <<>> /\ pcExp = "idle"
    /\ videoOpens = TRUE
    /\ targets = <<>> /\ fix = <<>> /\ used = <<>> /\ selected = <<>>
    /\ ti = 0 /\ df = <<>> /\ pcFix = "idle"
    /\ f_analyzeFrames = <<>> /\ f_gazeWorld = <<>> /\ f_ival = 0
    /\ f_data = <<>> /\ f_file = <<>>
    /\ b_frame_idx = 0 /\ b_ids = <<>> /\ b_video = <<>> /\ b_rows = <<>>
    /\ pcDet = "idle"
    /\ c_showVisualization = FALSE /\ c_showOnlyIntervals = FALSE
    /\ c_analyzeFrames = <<>> /\ c_camera = <<>> /\ c_gazeData = <<>>
    /\ c_poses = <<>> /\ c_nRead = 0 /\ c_gazes = <<>> /\ c_frame_idx = 0
    /\ c_sample = 0 /\ c_rows = <<>> /\ c_stopAllProcessing = FALSE
    /\ c_maxFrameIdx = 0 /\ pcGaze = "idle"
    /\ o_analyzeFrames = <<>> /\ o_gazeWorld = <<>> /\ o_poses = <<>>
    /\ o_targets = <<>> /\ o_ival = 0 /\ o_file = <<>> /\ pcOff = "idle"

varsOther ==
    <<varsFix, varsDet, varsGaze, varsOff, varsEnv, varsExp, varsBatch,
      varsJson>>

(* lines 181-269; task "None" is the call without a task *)
process_recording(rec, task) ==
    /\ g_popup = <<>>
    /\ rec \in DOMAIN g_recordings
    /\ LET t == IF task = "None" THEN NextTask(g_recordings[rec].task)
                ELSE task
       IN  IF ~HasFun(t)
           THEN UNCHANGED <<g_jobs, g_queue, g_pool>>
           ELSE IF ShouldLaunch(t, g_jobs)
           THEN /\ Len(g_pool) < MaxJobs
                /\ g_pool' = PoolRun(g_pool, rec)
                /\ g_jobs' = DictSet(g_jobs, rec,
                                     JobDescription(Len(g_pool) + 1, t))
                /\ UNCHANGED g_queue
           ELSE /\ g_queue' = DictSet(g_queue, rec, JobDescription(0, t))
                /\ UNCHANGED <<g_jobs, g_pool>>
    /\ UNCHANGED <<g_recordings, g_selected, g_popup, a_paths, a_offered,
                   pcAdd>>
    /\ UNCHANGED varsOther

(* the GUI asks for the next task of a recording, or for a task by name *)
RequestedTasks == {"None", "Data_Quality_Calculated"}

ProcessRecording ==
    \E rec \in DOMAIN g_recordings,
       task \in RequestedTasks : process_recording(rec, task)

(* lines 275-280, for one id *)
cancel_processing_recordings ==
    /\ g_popup = <<>>
    /\ \E rec_id \in DOMAIN g_recordings :
          /\ rec_id \in DOMAIN g_jobs \/ rec_id \in DOMAIN g_queue
          /\ g_pool' = IF rec_id \in DOMAIN g_jobs
                       THEN PoolCancel(g_pool, g_jobs[rec_id].id)
                       ELSE g_pool
          /\ g_queue' = DictDel(g_queue, rec_id)
    /\ UNCHANGED <<g_recordings, g_selected, g_jobs, g_popup, a_paths,
                   a_offered, pcAdd>>
    /\ UNCHANGED varsOther

(* lines 76-84: remove_callback; the files and the database entry are not
   part of the state kept here *)
remove_callback(rec) ==
    /\ g_pool' = IF rec \in DOMAIN g_jobs
                 THEN PoolCancel(g_pool, g_jobs[rec].id)
                 ELSE g_pool
    /\ g_recordings' = DictDel(g_recordings, rec)
    /\ g_selected' = DictDel(g_selected, rec)
    /\ UNCHANGED <<g_jobs, g_queue>>

(* lines 75-93: ask is "not bypass_confirm and settings.confirm_on_remove" *)
remove_recording ==
    /\ g_popup = <<>>
    /\ \E rec \in DOMAIN g_recordings, ask \in BOOLEAN :
          IF ask
          THEN /\ g_popup' = <<rec>>
               /\ UNCHANGED <<g_recordings, g_selected, g_jobs, g_queue,
                              g_pool>>
          ELSE /\ remove_callback(rec)
               /\ UNCHANGED g_popup
    /\ UNCHANGED <<a_paths, a_offered, pcAdd>>
    /\ UNCHANGED varsOther

(* the Yes button of the popup *)
RemoveYes ==
    /\ g_popup # <<>>
    /\ remove_callback(g_popup[1])
    /\ g_popup' = <<>>
    /\ UNCHANGED <<a_paths, a_offered, pcAdd>>
    /\ UNCHANGED varsOther

(* the No button *)
RemoveNo ==
    /\ g_popup # <<>>
    /\ g_popup' = <<>>
    /\ UNCHANGED <<g_recordings, g_selected, g_jobs, g_queue, g_pool,
                   a_paths, a_offered, pcAdd>>
    /\ UNCHANGED varsOther

NextJobs ==
    ProcessRecording \/ cancel_processing_recordings \/ remove_recording
    \/ RemoveYes \/ RemoveNo

-----------------------------------------------------------------------------
(* GUI/_impl/callbacks.py: _show_addable_recordings, _add_recordings *)

MaxPaths == 2

(* the directories the paths name: directory 1 holds the recording
   directories 2 and 3 *)
Dirs == {1, 2, 3}

(* utils.fast_scandir, which is not part of the sources at hand: the
   directories below p *)
fast_scandir(p) == IF p = 1 THEN <<2, 3>> ELSE <<>>

(* preprocess.get_recording_info, which is not part of the sources at hand:
   the recordings found in directory d, <<>> for None *)
get_recording_info(d) ==
    IF d \in {2, 3}
    THEN <<[task |-> "Not_Imported", source_directory |-> d]>>
    ELSE <<>>

SourceDirs(recordings) ==
    {recordings[id].source_directory : id \in DOMAIN recordings}

(* lines 116-124: the recordings of the directories dirs[k..] that are not
   in the project *)
RECURSIVE ScanDirs(_, _, _)
ScanDirs(dirs, k, recordings) ==
    IF k > Len(dirs) THEN <<>>
    ELSE SelectSeq(get_recording_info(dirs[k]),
                   LAMBDA rec : rec.source_directory \notin SourceDirs(recordings))
         \o ScanDirs(dirs, k + 1, recordings)

(* lines 113-124: all_recs over the paths k.. *)
RECURSIVE AllRecs(_, _, _)
AllRecs(paths, k, recordings) ==
    IF k > Len(paths) THEN <<>>
    ELSE ScanDirs(Append(fast_scandir(paths[k]), paths[k]), 1, recordings)
         \o AllRecs(paths, k + 1, recordings)

(* line 127: natsort.os_sorted by source directory *)
RECURSIVE os_sorted(_)
os_sorted(recs) ==
    IF recs = <<>> THEN <<>>
    ELSE LET i == CHOOSE x \in 1..Len(recs) :
                     \A y \in 1..Len(recs) :
                        \/ recs[x].source_directory < recs[y].source_directory
                        \/ /\ recs[x].source_directory = recs[y].source_directory
                           /\ x <= y
         IN  <<recs[i]>>
             \o os_sorted([n \in 1..(Len(recs) - 1) |->
                              IF n < i THEN recs[n] ELSE recs[n + 1]])

(* the project holds some of the recordings; the user has dropped one or
   more paths on the window and chosen the eye tracker *)
InitAdd ==
    /\ \E S \in SUBSET {2, 3} :
          g_recordings = [id \in 1..Cardinality(S) |->
                             [task |-> "Imported",
                              source_directory |->
                                 IF id = 1 /\ 2 \in S THEN 2 ELSE 3]]
    /\ g_selected = [id \in DOMAIN g_recordings |-> FALSE]
    /\ \E n \in 1..MaxPaths : a_paths \in [1..n -> Dirs]
    /\ a_offered = <<>> /\ pcAdd = "start"
    /\ g_jobs = <<>> /\ g_queue = <<>> /\ g_pool = <<>> /\ g_popup = <<>>
    /\ c_batch = 0 /\ c_key = ""
    /\ j_entries = <<>> /\ j_df = <<>> /\ pcJson = "idle"
    /\ x_ids = <<>> /\ x_tables = <<>> /\ x_settings = {}
    /\ x_popup = <<>> /\ x_export = <<>> /\ pcExp = "idle"
    /\ videoOpens = TRUE
    /\ targets = <<>> /\ fix = <<>> /\ used = <<>> /\ selected = <<>>
    /\ ti = 0 /\ df = <<>> /\ pcFix = "idle"
    /\ f_analyzeFrames = <<>> /\ f_gazeWorld = <<>> /\ f_ival = 0
    /\ f_data = <<>> /\ f_file = <<>>
    /\ b_frame_idx = 0 /\ b_ids = <<>> /\ b_video = <<>> /\ b_rows = <<>>
    /\ pcDet = "idle"
    /\ c_showVisualization = FALSE /\ c_showOnlyIntervals = FALSE
    /\ c_analyzeFrames = <<>> /\ c_camera = <<>> /\ c_gazeData = <<>>
    /\ c_poses = <<>> /\ c_nRead = 0 /\ c_gazes = <<>> /\ c_frame_idx = 0
    /\ c_sample = 0 /\ c_rows = <<>> /\ c_stopAllProcessing = FALSE
    /\ c_maxFrameIdx = 0 /\ pcGaze = "idle"
    /\ o_analyzeFrames = <<>> /\ o_gazeWorld = <<>> /\ o_poses = <<>>
    /\ o_targets = <<>> /\ o_ival = 0 /\ o_file = <<>> /\ pcOff = "idle"

(* lines 104-163: the paths are scanned; the recordings found are offered
   in a popup, or a message tells that there is nothing to import *)
show_addable_recordings ==
    /\ pcAdd = "start"
    /\ LET all_recs == os_sorted(AllRecs(a_paths, 1, g_recordings))
       IN  IF all_recs = <<>>
           THEN /\ pcAdd' = "nothing"
                /\ UNCHANGED a_offered
           ELSE /\ a_offered' = all_recs
                /\ pcAdd' = "popup"
    /\ UNCHANGED <<g_recordings, g_selected, g_jobs, g_queue, g_pool,
                   g_popup, a_paths>>
    /\ UNCHANGED varsOther

(* lines 95-101, _add_recordings: the Continue button adds the recordings
   that are ticked, in the order of the list *)
AddContinue ==
    /\ pcAdd = "popup"
    /\ \E sel \in [1..Len(a_offered) -> BOOLEAN] :
          LET added == SelectSeq([n \in 1..Len(a_offered) |->
                                     <<sel[n], a_offered[n]>>],
                                 LAMBDA e : e[1])
              n0 == Len(g_recordings)
          IN  /\ g_recordings' =
                    [id \in 1..(n0 + Len(added)) |->
                        IF id <= n0 THEN g_recordings[id]
                        ELSE added[id - n0][2]]
              /\ g_selected' =
                    [id \in 1..(n0 + Len(added)) |->
                        IF id <= n0 THEN g_selected[id] ELSE FALSE]
    /\ pcAdd' = "added"
    /\ UNCHANGED <<g_jobs, g_queue, g_pool, g_popup, a_paths, a_offered>>
    /\ UNCHANGED varsOther

(* the Cancel button *)
AddCancel ==
    /\ pcAdd = "popup"
    /\ pcAdd' = "cancelled"
    /\ UNCHANGED <<g_recordings, g_selected, g_jobs, g_queue, g_pool,
                   g_popup, a_paths, a_offered>>
    /\ UNCHANGED varsOther

NextAdd == show_addable_recordings \/ AddContinue \/ AddCancel

-----------------------------------------------------------------------------
(* preprocess/tobii_G3.py: json2df *)

MaxEntries == 2

(* an entry of the gaze data file: its type, its timestamp in seconds and
   whether data.eyeleft and data.eyeright hold a gazeorigin and a
   gazedirection; entries that are not gaze hold neither *)
Entries ==
    [type : {"gaze"}, timestamp : {1, 2}, left : BOOLEAN, right : BOOLEAN]
    \cup [type : {"other"}, timestamp : {1, 2}, left : {FALSE},
          right : {FALSE}]

(* line 193, pd.json_normalize: a nested key is a column when some entry
   holds it *)
HasColumn(entries, eye) == \E n \in 1..Len(entries) : entries[n][eye]

(* line 198, dfR.drop(dfR[dfR.type != 'gaze'].index): every row that
   carries an index label of a row that is not gaze is removed *)
DropNotGaze(dfR) ==
    LET labels == {dfR[n].timestamp :
                      n \in {k \in 1..Len(dfR) : dfR[k].type # "gaze"}}
    IN  SelectSeq(dfR, LAMBDA e : e.timestamp \notin labels)

(* line 201, expander: a cell that is no list becomes n times nan *)
expander(present, n) ==
    IF present THEN [k \in 1..n |-> R(k)] ELSE [k \in 1..n |-> NaN]

EyeColumns(which_eye) ==
    <<<<which_eye, "gaze_ori_x">>, <<which_eye, "gaze_ori_y">>,
      <<which_eye, "gaze_ori_z">>, <<which_eye, "pup_diam">>,
      <<which_eye, "gaze_dir_x">>, <<which_eye, "gaze_dir_y">>,
      <<which_eye, "gaze_dir_z">>>>

(* lines 193-220: <<columns, rows>> of the DataFrame returned; a row holds
   its index and, for the eyes that have columns, origin and direction *)
json2dfResult(entries) ==
    LET dfR == DropNotGaze([n \in 1..Len(entries) |->
                   [entries[n] EXCEPT !.timestamp = @ * 1000]])
        hasL == HasColumn(entries, "left")
        hasR == HasColumn(entries, "right")
    IN  <<(IF hasL THEN EyeColumns("l") ELSE <<>>)
          \o (IF hasR THEN EyeColumns("r") ELSE <<>>),
          [n \in 1..Len(dfR) |->
              [timestamp |-> dfR[n].timestamp,
               l_gaze_ori |-> IF hasL THEN expander(dfR[n].left, 3) ELSE <<>>,
               l_gaze_dir |-> IF hasL THEN expander(dfR[n].left, 3) ELSE <<>>,
               r_gaze_ori |-> IF hasR THEN expander(dfR[n].right, 3) ELSE <<>>,
               r_gaze_dir |-> IF hasR THEN expander(dfR[n].right, 3)
                              ELSE <<>>]]>>

(* the gaze data file holds one or more entries *)
InitJson ==
    /\ \E n \in 1..MaxEntries : j_entries \in [1..n -> Entries]
    /\ j_df = <<>> /\ pcJson = "start"
    /\ c_batch = 0 /\ c_key = ""
    /\ g_recordings = <<>> /\ g_selected = <<>> /\ g_jobs = <<>>
    /\ g_queue = <<>> /\ g_pool = <<>> /\ g_popup = <<>>
    /\ a_paths = <<>> /\ a_offered = <<>> /\ pcAdd = "idle"
    /\ x_ids = <<>> /\ x_tables = <<>> /\ x_settings = {}
    /\ x_popup = <<>> /\ x_export = <<>> /\ pcExp = "idle"
    /\ videoOpens = TRUE
    /\ targets = <<>> /\ fix = <<>> /\ used = <<>> /\ selected = <<>>
    /\ ti = 0 /\ df = <<>> /\ pcFix = "idle"
    /\ f_analyzeFrames = <<>> /\ f_gazeWorld = <<>> /\ f_ival = 0
    /\ f_data = <<>> /\ f_file = <<>>
    /\ b_frame_idx = 0 /\ b_ids = <<>> /\ b_video = <<>> /\ b_rows = <<>>
    /\ pcDet = "idle"
    /\ c_showVisualization = FALSE /\ c_showOnlyIntervals = FALSE
    /\ c_analyzeFrames = <<>> /\ c_camera = <<>> /\ c_gazeData = <<>>
    /\ c_poses = <<>> /\ c_nRead = 0 /\ c_gazes = <<>> /\ c_frame_idx = 0
    /\ c_sample = 0 /\ c_rows = <<>> /\ c_stopAllProcessing = FALSE
    /\ c_maxFrameIdx = 0 /\ pcGaze = "idle"
    /\ o_analyzeFrames = <<>> /\ o_gazeWorld = <<>> /\ o_poses = <<>>
    /\ o_targets = <<>> /\ o_ival = 0 /\ o_file = <<>> /\ pcOff = "idle"

(* lines 180-220 *)
json2df ==
    /\ pcJson = "start"
    /\ j_df' = json2dfResult(j_entries)
    /\ pcJson' = "done"
    /\ UNCHANGED j_entries
    /\ UNCHANGED <<varsFix, varsDet, varsGaze, varsOff, varsEnv, varsExp,
                   varsBatch, varsGui>>

NextJson == json2df

-----------------------------------------------------------------------------
(* c_gazeToBoard.py, __main__: the loop over the recordings *)

MaxBatch == 2

(* the loop calls process on its first recording, with the display on; the
   recordings hold frames with a pose and up to MaxSamples samples *)
InitBatch ==
    /\ c_batch = 1 /\ c_key = ""
    /\ c_showVisualization = TRUE
    /\ c_showOnlyIntervals = FALSE
    /\ c_analyzeFrames = <<>>
    /\ c_camera = OffCamera
    /\ \E n \in 0..MaxSamples :
         \E fr \in [1..n -> 0..MaxFrameIdx] :
            c_gazeData = [k \in 1..n |->
                             Gaze(fr[k], k, Vec(0, 1, 2), EyeSeeing, EyeSeeing)]
    /\ c_poses = [f \in 0..MaxFrameIdx |-> OffPose]
    /\ c_nRead = 0 /\ c_gazes = <<>> /\ c_maxFrameIdx = 0
    /\ c_frame_idx = 0 /\ c_sample = 0 /\ c_rows = <<>>
    /\ c_stopAllProcessing = FALSE /\ pcGaze = "readGaze"
    /\ videoOpens = TRUE
    /\ j_entries = <<>> /\ j_df = <<>> /\ pcJson = "idle"
    /\ g_recordings = <<>> /\ g_selected = <<>> /\ g_jobs = <<>>
    /\ g_queue = <<>> /\ g_pool = <<>> /\ g_popup = <<>>
    /\ a_paths = <<>> /\ a_offered = <<>> /\ pcAdd = "idle"
    /\ x_ids = <<>> /\ x_tables = <<>> /\ x_settings = {}
    /\ x_popup = <<>> /\ x_export = <<>> /\ pcExp = "idle"
    /\ targets = <<>> /\ fix = <<>> /\ used = <<>> /\ selected = <<>>
    /\ ti = 0 /\ df = <<>> /\ pcFix = "idle"
    /\ f_analyzeFrames = <<>> /\ f_gazeWorld = <<>> /\ f_ival = 0
    /\ f_data = <<>> /\ f_file = <<>>
    /\ b_frame_idx = 0 /\ b_ids = <<>> /\ b_video = <<>> /\ b_rows = <<>>
    /\ pcDet = "idle"
    /\ o_analyzeFrames = <<>> /\ o_gazeWorld = <<>> /\ o_poses = <<>>
    /\ o_targets = <<>> /\ o_ival = 0 /\ o_file = <<>> /\ pcOff = "idle"

(* lines 302-307: process has returned; the loop breaks when it returned
   True, goes on with the next recording otherwise, and ends after the
   last *)
BatchNext ==
    /\ pcGaze = "done"
    /\ c_batch >= 1
    /\ IF c_stopAllProcessing
       THEN /\ pcGaze' = "stopped"
            /\ UNCHANGED <<c_batch, c_nRead, c_gazes, c_maxFrameIdx,
                           c_frame_idx, c_sample, c_rows>>
       ELSE IF c_batch < MaxBatch
       THEN /\ c_batch' = c_batch + 1
            /\ c_nRead' = 0 /\ c_gazes' = <<>> /\ c_maxFrameIdx' = 0
            /\ c_frame_idx' = 0 /\ c_sample' = 0 /\ c_rows' = <<>>
            /\ pcGaze' = "readGaze"
       ELSE /\ pcGaze' = "finished"
            /\ UNCHANGED <<c_batch, c_nRead, c_gazes, c_maxFrameIdx,
                           c_frame_idx, c_sample, c_rows>>
    /\ UNCHANGED <<c_showVisualization, c_showOnlyIntervals, c_analyzeFrames,
                   c_camera, c_gazeData, c_poses, c_stopAllProcessing, c_key>>
    /\ UNCHANGED <<varsFix, varsDet, varsOff, varsEnv, varsExp, varsJson,
                   varsGui>>

NextBatch == NextGaze \/ BatchNext

-----------------------------------------------------------------------------
(* The stages that read markerInterval.tsv *)

(* one of the three stages is started on a recording of two frames:
   e2_determineFixationIntervals.py, e1_computeOffsetsToTargets.py, or
   process/d_gazeToBoard.py *)
InitIvals ==
    /\ b_frame_idx = 0 /\ b_ids = <<>> /\ b_video = <<>> /\ b_rows = <<>>
    /\ pcDet = "idle"
    /\ \/ /\ targets \in [0..0 -> Pos]
          /\ fix = <<>> /\ used = <<>> /\ selected = <<>>
          /\ ti = 0 /\ df = <<>> /\ pcFix = "start"
          /\ f_analyzeFrames \in FixAnalyzeOptions
          /\ \E n \in 0..MaxOffSamples :
               \E fr \in [1..n -> 0..1], kd \in [1..n -> FixKinds] :
                  /\ \A k \in 1..(n - 1) : fr[k] <= fr[k + 1]
                  /\ f_gazeWorld =
                       [k \in 1..n |->
                           FixSample(fr[k], 10 * k, kd[k][1], kd[k][2],
                                     kd[k][3], kd[k][4])]
          /\ f_ival = 0 /\ f_data = <<>>
          /\ f_file \in {<<>>, <<StaleLine>>}
          /\ o_analyzeFrames = <<>> /\ o_gazeWorld = <<>> /\ o_poses = <<>>
          /\ o_targets = <<>> /\ o_ival = 0 /\ o_file = <<>>
          /\ pcOff = "idle"
          /\ c_showVisualization = FALSE /\ c_showOnlyIntervals = FALSE
          /\ c_analyzeFrames = <<>> /\ c_camera = <<>> /\ c_gazeData = <<>>
          /\ c_poses = <<>> /\ c_nRead = 0 /\ c_gazes = <<>>
          /\ c_maxFrameIdx = 0 /\ c_frame_idx = 0 /\ c_sample = 0
          /\ videoOpens = TRUE
          /\ x_ids = <<>> /\ x_tables = <<>> /\ x_settings = {}
          /\ x_popup = <<>> /\ x_export = <<>> /\ pcExp = "idle"
          /\ c_batch = 0 /\ c_key = ""
          /\ j_entries = <<>> /\ j_df = <<>> /\ pcJson = "idle"
          /\ g_recordings = <<>> /\ g_selected = <<>> /\ g_jobs = <<>>
          /\ g_queue = <<>> /\ g_pool = <<>> /\ g_popup = <<>>
          /\ a_paths = <<>> /\ a_offered = <<>> /\ pcAdd = "idle"
          /\ c_rows = <<>> /\ c_stopAllProcessing = FALSE /\ pcGaze = "idle"
       \/ /\ targets = <<>> /\ fix = <<>> /\ used = <<>> /\ selected = <<>>
          /\ ti = 0 /\ df = <<>> /\ pcFix = "idle"
          /\ f_analyzeFrames = <<>> /\ f_gazeWorld = <<>> /\ f_ival = 0
          /\ f_data = <<>> /\ f_file = <<>>
          /\ o_analyzeFrames \in OffAnalyzeOptions
          /\ \E F \in SUBSET (0..1) : o_poses = [f \in F |-> OffPose]
          /\ \E n \in 0..MaxOffSamples :
               \E fr \in [1..n -> 0..1], kd \in [1..n -> OffKinds] :
                  /\ \A k \in 1..(n - 1) : fr[k] <= fr[k + 1]
                  /\ o_gazeWorld =
                       [k \in 1..n |->
                           WorldSample(fr[k], 10 * k, fr[k] \in DOMAIN o_poses,
                                       kd[k][1], kd[k][2], kd[k][3], kd[k][4])]
          /\ o_targets = <<OffTarget(1)>>
          /\ o_ival = 0
          /\ o_file \in {<<>>, <<StaleLine>>}
          /\ pcOff = "start"
          /\ c_showVisualization = FALSE /\ c_showOnlyIntervals = FALSE
          /\ c_analyzeFrames = <<>> /\ c_camera = <<>> /\ c_gazeData = <<>>
          /\ c_poses = <<>> /\ c_nRead = 0 /\ c_gazes = <<>>
          /\ c_maxFrameIdx = 0 /\ c_frame_idx = 0 /\ c_sample = 0
          /\ videoOpens = TRUE
          /\ x_ids = <<>> /\ x_tables = <<>> /\ x_settings = {}
          /\ x_popup = <<>> /\ x_export = <<>> /\ pcExp = "idle"
          /\ c_batch = 0 /\ c_key = ""
          /\ j_entries = <<>> /\ j_df = <<>> /\ pcJson = "idle"
          /\ g_recordings = <<>> /\ g_selected = <<>> /\ g_jobs = <<>>
          /\ g_queue = <<>> /\ g_pool = <<>> /\ g_popup = <<>>
          /\ a_paths = <<>> /\ a_offered = <<>> /\ pcAdd = "idle"
          /\ c_rows = <<>> /\ c_stopAllProcessing = FALSE /\ pcGaze = "idle"
       \/ /\ targets = <<>> /\ fix = <<>> /\ used = <<>> /\ selected = <<>>
          /\ ti = 0 /\ df = <<>> /\ pcFix = "idle"
          /\ f_analyzeFrames = <<>> /\ f_gazeWorld = <<>> /\ f_ival = 0
          /\ f_data = <<>> /\ f_file = <<>>
          /\ o_analyzeFrames = <<>> /\ o_gazeWorld = <<>> /\ o_poses = <<>>
          /\ o_targets = <<>> /\ o_ival = 0 /\ o_file = <<>>
          /\ pcOff = "idle"
          /\ c_showVisualization \in BOOLEAN
          /\ c_showOnlyIntervals \in BOOLEAN
          /\ c_analyzeFrames \in OffAnalyzeOptions
          /\ c_camera = OffCamera
          /\ \E n \in 1..MaxValSamples :
               \E fr \in [1..n -> 0..1] :
                  c_gazeData = [k \in 1..n |->
                                   Gaze(fr[k], k, Vec(0, 1, 2), EyeSeeing,
                                        EyeSeeing)]
          /\ c_poses = [f \in 0..1 |-> OffPose]
          /\ c_nRead = 0 /\ c_gazes = <<>> /\ c_maxFrameIdx = 0
          /\ videoOpens = TRUE
          /\ x_ids = <<>> /\ x_tables = <<>> /\ x_settings = {}
          /\ x_popup = <<>> /\ x_export = <<>> /\ pcExp = "idle"
          /\ c_batch = 0 /\ c_key = ""
          /\ j_entries = <<>> /\ j_df = <<>> /\ pcJson = "idle"
          /\ g_recordings = <<>> /\ g_selected = <<>> /\ g_jobs = <<>>
          /\ g_queue = <<>> /\ g_pool = <<>> /\ g_popup = <<>>
          /\ a_paths = <<>> /\ a_offered = <<>> /\ pcAdd = "idle"
          /\ c_frame_idx = 0 /\ c_sample = 0 /\ c_rows = <<>>
          /\ c_stopAllProcessing = FALSE /\ pcGaze = "readGaze"

NextIvals == NextFix \/ NextOff \/ NextGaze

-----------------------------------------------------------------------------
(* Specifications *)

SpecFix == InitFix /\ [][NextFix]_vars

SpecDet == InitDet /\ [][NextDet]_vars

SpecGaze == InitGaze /\ [][NextGaze]_vars

SpecGazeVal == InitGazeVal /\ [][NextGaze]_vars

SpecOff == InitOff /\ [][NextOff]_vars

NextTables == NextDet \/ NextGaze

SpecTables == InitTables /\ [][NextTables]_vars

SpecIvals == InitIvals /\ [][NextIvals]_vars

SpecVideo == InitVideo /\ [][NextVideo]_vars

SpecExport == InitExport /\ [][NextExport]_vars
SpecJobs == InitJobs /\ [][NextJobs]_vars
SpecAdd == InitAdd /\ [][NextAdd]_vars
SpecJson == InitJson /\ [][NextJson]_vars
SpecBatch == InitBatch /\ [][NextBatch]_vars

-----------------------------------------------------------------------------
(* Properties of the fixation matcher *)

Assigned == {k \in DOMAIN selected : selected[k] # NotSelected}
LoopOver == pcFix = "done"

(* the fixations that were claimed before target k was visited *)
ClaimedBefore(k) == {selected[j] : j \in {a \in Assigned : a < k}}
EligibleAt(k) == {f \in DOMAIN fix : f \notin ClaimedBefore(k) /\ fix[f].dur >= minDur}
Eligible == {f \in DOMAIN fix : fix[f].dur >= minDur}

(* C1: after the matching loop no two assigned targets hold the same
   fixation index in selected. *)
C1_Injective ==
    LoopOver =>
        \A a, b \in Assigned : a # b => selected[a] # selected[b]

(* C2: a fixation shorter than minDur is never assigned to a target. *)
C2_NoShortFixation ==
    \A k \in Assigned : fix[selected[k]].dur >= minDur

(* C3: a target visited when no eligible fixation remained stays -999 and
   gets no row. *)
C3_NoEligibleUnassigned ==
    LoopOver =>
        \A k \in DOMAIN targets :
            EligibleAt(k) = {} =>
                /\ selected[k] = NotSelected
                /\ \A r \in 1..Len(df) : df[r].target # k

(* C4: with fewer eligible fixations than targets, exactly N - E targets are
   unassigned and the E others hold one fixation each. *)
C4_UnassignedCount ==
    (LoopOver /\ Cardinality(Eligible) < Cardinality(DOMAIN targets)) =>
        /\ Cardinality(DOMAIN targets \ Assigned)
               = Cardinality(DOMAIN targets) - Cardinality(Eligible)
        /\ Cardinality({selected[k] : k \in Assigned}) = Cardinality(Eligible)

(* The greedy reference of the design: targets in order, each takes the
   nearest fixation that is long enough and not taken by an earlier target,
   the lowest index on equal distance; none left means unassigned. *)
RECURSIVE GreedyRef(_)
GreedyRef(k) ==
    IF k = 0 THEN <<>>
    ELSE LET prev == GreedyRef(k - 1)
             taken == {prev[j] : j \in DOMAIN prev}
             elig == {f \in DOMAIN fix : f \notin taken /\ fix[f].dur >= minDur}
             d(f) == Hypot2(fix[f].xpos - targets[k - 1][1],
                            fix[f].ypos - targets[k - 1][2])
             best == CHOOSE f \in elig :
                         \A g \in elig : d(f) < d(g) \/ (d(f) = d(g) /\ f <= g)
         IN  Append(prev, IF elig = {} THEN NotSelected ELSE best)

(* C5: every visited target that the reference serves holds the reference's
   fixation, whatever targets follow, and a visited target's entry is never
   changed by a later iteration. *)
C5_GreedyReference ==
    pcFix \in {"match", "done"} =>
        LET ref == GreedyRef(ti)
        IN  \A k \in 0..(ti - 1) :
                ref[k + 1] # NotSelected => selected[k] = ref[k + 1]

C5_Witness ==
    /\ pcFix = "done"
    /\ Cardinality(DOMAIN targets) >= 2
    /\ targets[0] = targets[1]
    /\ Cardinality(DOMAIN fix) >= 2
    /\ selected[0] = 1
    /\ fix[0].dur < minDur
    /\ selected[1] \notin {NotSelected, 0, 1}

-----------------------------------------------------------------------------
(* Properties of the marker-detection loop *)

KnownIn(ids) == IF ids = None THEN 0 ELSE nMarkersUsed(ids)

(* C6: a frame in which fewer than 4 board markers were detected has no row
   in the pose table, whatever else was detected. *)
C6_FewKnownNoRow ==
    \A r \in 1..Len(b_rows) :
        KnownIn(b_video[b_rows[r].frame_idx + 1]) >= 4

(* C7: at most one row per frame index, rows in strictly increasing
   frame-index order, each row's frame index is the number of frames read
   before its frame, and a frame whose homography estimation did not
   succeed has no row. *)
C7_PoseTableOrdered ==
    /\ \A r, q \in 1..Len(b_rows) :
          r < q => b_rows[r].frame_idx < b_rows[q].frame_idx
    /\ \A r \in 1..Len(b_rows) :
          /\ b_rows[r].frame_idx = b_rows[r].framesReadBefore
          /\ b_rows[r].frame_idx + 1 \in 1..Len(b_video)
    /\ \A f \in 1..Len(b_video) :
          ~PoseFound(b_video[f]) =>
              \A r \in 1..Len(b_rows) : b_rows[r].frame_idx # f - 1

C7_Witness ==
    /\ pcDet = "closed"
    /\ Len(b_video) = 3
    /\ Len(b_rows) = 2
    /\ b_rows[1].frame_idx = 0
    /\ b_rows[2].frame_idx = 2
    /\ ~PoseFound(b_video[2])

-----------------------------------------------------------------------------
(* Properties of the gaze-to-board stage *)

(* positions of the columns named by the header, lines 146-153 *)
ColFrameIdx == 1
ColGazeTs == 3
ColsGaze3D == 10..14
ColsBoard2D_vidPos == 13..14
ColsLeft == 15..22
ColsCam3DLeft == 18..20
ColsBoard2DLeft == 21..22
ColsRight == 23..30
ColsCam3DRight == 26..28
ColsBoard2DRight == 29..30
NCols == 30

RowKey(row) == <<row[ColFrameIdx][1], row[ColGazeTs][1]>>
RowKeys == [r \in 1..Len(c_rows) |-> RowKey(c_rows[r])]

(* the samples of gazeData.tsv owned by frame f, in file order *)
FileSamplesOf(f) == SelectSeq(c_gazeData, LAMBDA g : g.frame_idx = f)

RECURSIVE ExpectedKeysFrom(_)
ExpectedKeysFrom(f) ==
    IF f > MaxFrameIdx THEN <<>>
    ELSE (IF f \in DOMAIN c_poses
          THEN [k \in 1..Len(FileSamplesOf(f)) |-> <<f, FileSamplesOf(f)[k].ts>>]
          ELSE <<>>)
         \o ExpectedKeysFrom(f + 1)

IsPrefix(a, b) == Len(a) <= Len(b) /\ \A k \in 1..Len(a) : a[k] = b[k]

(* C8: with the display off the stage writes one row per sample whose frame
   has a pose and none for the others, by ascending frame index and, within
   a frame, in file order. *)
C8_RowPerPosedSample ==
    ~c_showVisualization =>
        /\ IsPrefix(RowKeys, ExpectedKeysFrom(0))
        /\ pcGaze = "done" => RowKeys = ExpectedKeysFrom(0)

C8_Witness ==
    /\ pcGaze = "done"
    /\ ~c_showVisualization
    /\ Len(c_gazeData) = 2
    /\ c_gazeData[1].frame_idx = 2
    /\ c_gazeData[2].frame_idx = 0
    /\ RowKeys = << <<0, 2>>, <<2, 1>> >>

C8_WitnessSeveral ==
    /\ pcGaze = "done"
    /\ ~c_showVisualization
    /\ Len(c_gazeData) = 2
    /\ c_gazeData[1].frame_idx = 1
    /\ c_gazeData[2].frame_idx = 1
    /\ Len(c_rows) = 2

SampleOfRow(row) == c_gazeData[row[ColGazeTs][1]]
PoseOfRow(row) == c_poses[row[ColFrameIdx][1]]

AgreeOn(a, b, cols) == \A n \in cols : a[n] = b[n]
AllNaN(row, cols) == \A n \in cols : IsNaN(row[n])

LeftMissing(g) == g.lGazeVec = NaNVec /\ g.lGazeOrigin = NaNVec
RightMissing(g) == g.rGazeVec = NaNVec /\ g.rGazeOrigin = NaNVec

WithLeft(g, e) == [g EXCEPT !.lGazeVec = e.vec, !.lGazeOrigin = e.origin]
WithRight(g, e) == [g EXCEPT !.rGazeVec = e.vec, !.rGazeOrigin = e.origin]

(* C9: a sample with one eye entirely NaN still gets its whole row; that
   eye's board point is (NaN, NaN), and the other eye and the 3D gaze point
   are written as they would be with that eye's data present. *)
C9_MissingEyeOnlyThatEye ==
    /\ pcGaze = "done" => Len(c_rows) = Len(c_gazeData)
    /\ \A r \in 1..Len(c_rows) :
          LET row == c_rows[r]
              g == SampleOfRow(row)
              f == row[ColFrameIdx][1]
          IN  /\ Len(row) = NCols
              /\ LeftMissing(g) =>
                    /\ AllNaN(row, ColsBoard2DLeft)
                    /\ \A e \in PresentEyeData :
                          LET alt == WriteDat(f, WithLeft(g, e), PoseOfRow(row), c_camera)
                          IN  AgreeOn(row, alt, (1..14) \cup ColsRight)
              /\ RightMissing(g) =>
                    /\ AllNaN(row, ColsBoard2DRight)
                    /\ \A e \in PresentEyeData :
                          LET alt == WriteDat(f, WithRight(g, e), PoseOfRow(row), c_camera)
                          IN  AgreeOn(row, alt, 1..22)

C9_Witness ==
    /\ pcGaze = "done"
    /\ Len(c_rows) = 2
    /\ LeftMissing(SampleOfRow(c_rows[1]))
    /\ ~RightMissing(SampleOfRow(c_rows[1]))
    /\ AllNaN(c_rows[1], ColsBoard2DLeft)
    /\ \A n \in ColsBoard2DRight : ~IsNaN(c_rows[1][n])
    /\ \A n \in ColsBoard2D_vidPos : ~IsNaN(c_rows[1][n])

(* the rays handed to intersect_plane_ray, lines 208, 226 *)
RayDir3D(g) == Normalize(MatVec(c_camera.R, g.world3D))
RayDirLeft(g) == ToCamera(c_camera, g.lGazeVec)
RayDirRight(g) == ToCamera(c_camera, g.rGazeVec)

Parallel(pose, d) ==
    /\ \A n \in 1..3 : ~IsNaN(d[n])
    /\ Dot(BoardNormal(pose), d) = R(0)

(* C10: a ray parallel to the board gives a NaN intersection; the stage
   writes NaN for that method's board point, completes the row and goes on
   with the samples that follow. *)
C10_ParallelRayIsNaN ==
    /\ pcGaze = "done" => Len(c_rows) = Len(c_gazeData)
    /\ \A r \in 1..Len(c_rows) :
          LET row == c_rows[r]
              g == SampleOfRow(row)
              pose == PoseOfRow(row)
          IN  /\ Len(row) = NCols
              /\ Parallel(pose, RayDir3D(g)) => AllNaN(row, ColsGaze3D)
              /\ Parallel(pose, RayDirLeft(g)) =>
                    AllNaN(row, ColsCam3DLeft \cup ColsBoard2DLeft)
              /\ Parallel(pose, RayDirRight(g)) =>
                    AllNaN(row, ColsCam3DRight \cup ColsBoard2DRight)

C10_Witness ==
    /\ pcGaze = "done"
    /\ Len(c_rows) = 2
    /\ Parallel(PoseOfRow(c_rows[1]), RayDirLeft(SampleOfRow(c_rows[1])))
    /\ Parallel(PoseOfRow(c_rows[1]), RayDir3D(SampleOfRow(c_rows[1])))
    /\ AllNaN(c_rows[1], ColsBoard2DLeft)
    /\ \A n \in ColsBoard2DRight : ~IsNaN(c_rows[1][n])
    /\ \A n \in ColsBoard2DLeft : ~IsNaN(c_rows[2][n])

-----------------------------------------------------------------------------
(* Properties of the rows of both tables *)

(* the detection loop was left by the 'q' key: frame_idx was not advanced
   past the last frame read *)
DetQuit == pcDet = "closed" /\ b_video # <<>> /\ b_frame_idx = Len(b_video) - 1

(* C11: every data row of the pose table and of the gaze-on-board table has
   as many fields as the header of its table, whether eye data is present
   or missing and whether the target lies in the image or not, also after a
   run left by the quit or next key. *)
C11_WholeRows ==
    /\ \A r \in 1..Len(b_rows) : Len(b_rows[r].fields) = Len(PoseHeader)
    /\ \A r \in 1..Len(c_rows) : Len(c_rows[r]) = Len(GazeHeader)

C11_Witness ==
    /\ DetQuit
    /\ Len(b_rows) = 2
    /\ b_rows[1].drawn
    /\ ~b_rows[2].drawn
    /\ b_rows[2].frame_idx = b_frame_idx

C11_WitnessGaze ==
    /\ pcGaze = "done"
    /\ c_stopAllProcessing
    /\ c_frame_idx = 0
    /\ c_maxFrameIdx = 1
    /\ Len(c_gazeData) = 2
    /\ Len(c_rows) = 1
    /\ AllNaN(c_rows[1], ColsBoard2DLeft)
    /\ \A n \in ColsBoard2DRight : ~IsNaN(c_rows[1][n])

(* a frame the display loop of d_gazeToBoard.py passes over (lines 75-87) *)
Skipped(f) == c_showVisualization /\ hasAnalyzeFrames /\ ~inIval(f)

(* the keys of the rows of frames 0..f, in the order of writing *)
RECURSIVE ExpectedKeysUpTo(_)
ExpectedKeysUpTo(f) ==
    IF f < 0 THEN <<>>
    ELSE ExpectedKeysUpTo(f - 1)
         \o (IF f \in DOMAIN c_poses /\ ~Skipped(f)
             THEN [k \in 1..Len(FileSamplesOf(f)) |-> <<f, FileSamplesOf(f)[k].ts>>]
             ELSE <<>>)

(* the frames of the video that have a row, by frame index *)
FramesWithRow == {b_rows[r].frame_idx : r \in 1..Len(b_rows)}

(* C12: a quit request is acted on between frames only, when every row of
   the current frame has been written; after it no row is written, and no
   row written before it is ever taken back. *)
C12_CooperativeCancel ==
    /\ [](c_stopAllProcessing =>
            /\ pcGaze \in {"closing", "done"}
            /\ RowKeys = ExpectedKeysUpTo(c_frame_idx))
    /\ [](DetQuit =>
            \A f \in 1..Len(b_video) :
                PoseFound(b_video[f]) <=> (f - 1) \in FramesWithRow)
    /\ [][c_stopAllProcessing => c_rows' = c_rows]_vars
    /\ [][pcDet = "closed" => b_rows' = b_rows]_vars
    /\ [][IsPrefix(c_rows, c_rows') /\ IsPrefix(b_rows, b_rows')]_vars

C12_Witness ==
    /\ pcGaze = "done"
    /\ c_stopAllProcessing
    /\ c_frame_idx = 0
    /\ Len(c_gazeData) = 2
    /\ c_gazeData[1].frame_idx = 0
    /\ c_gazeData[2].frame_idx = 1
    /\ Len(c_rows) = 1

-----------------------------------------------------------------------------
(* Properties of the offset stage *)

OffDataLines == {n \in 1..Len(o_file) : ~o_file[n].header /\ o_file[n].cols = <<>>}
NIvals == Len(o_analyzeFrames) \div 2
OffStopped == pcOff \in {"done", "raised"}

(* the rows of interval k (counted from 0) in the file, in file order *)
IvalRows(k) ==
    LET ls == SelectSeq(o_file, LAMBDA l : /\ ~l.header
                                           /\ l.cols = <<>>
                                           /\ l.row.marker_interval = k + 1)
    IN  [n \in 1..Len(ls) |-> ls[n].row]

SamplesOfIval(k) == gazeWorldToAnal(o_gazeWorld, o_analyzeFrames, k)
SampleOfRow13(row) == SamplesOfIval(row.marker_interval - 1)[row.entry[1] + 1]
TargetOfRow(row) == o_targets[row.entry[3] + 1]
MethodOfRow(row) == row.entry[2]

(* C13: when the stage has ended, every interval has been written; an
   interval with S samples has 4*S*T rows, and each row is labelled with
   the timestamp of the sample, the name of the method and the id of the
   target of the offset entry whose values it carries. *)
C13_RowPerEntry ==
    OffStopped =>
        \A k \in 0..(NIvals - 1) :
            LET rows == IvalRows(k)
                smp == SamplesOfIval(k)
            IN  /\ o_ival > k
                /\ Len(rows) = 4 * Len(smp) * Len(o_targets)
                /\ \A n \in 1..Len(rows) :
                      /\ rows[n].entry = Unravel3(n - 1, 4, Len(o_targets))
                      /\ rows[n].timestamp = smp[rows[n].entry[1] + 1].ts
                      /\ rows[n].eye = map[rows[n].entry[2] + 1]
                      /\ rows[n].target = o_targets[rows[n].entry[3] + 1][1]

(* the same for the intervals that have been written *)
OffsetRowsAligned ==
    \A k \in 0..(o_ival - 1) :
        LET rows == IvalRows(k)
            smp == SamplesOfIval(k)
        IN  /\ Len(rows) = 4 * Len(smp) * Len(o_targets)
            /\ \A n \in 1..Len(rows) :
                  /\ rows[n].entry = Unravel3(n - 1, 4, Len(o_targets))
                  /\ rows[n].timestamp = smp[rows[n].entry[1] + 1].ts
                  /\ rows[n].eye = map[rows[n].entry[2] + 1]
                  /\ rows[n].target = o_targets[rows[n].entry[3] + 1][1]

(* C14: an offset is NaN only if the board point of the row's method is
   not there for the sample; a homography row of a sample that has a
   homography board point is not NaN, pose or no pose. *)
C14_NaNOnlyIfUnavailable ==
    \A n \in OffDataLines :
        LET row == o_file[n].row
            d == MethodData(SampleOfRow13(row), MethodOfRow(row))
        IN  (IsNaNComp(row.offset[1]) \/ IsNaNComp(row.offset[2]))
                => IsNaN(d.gazeBoard[1])

RightEyeMissing(smp) ==
    /\ \A n \in 1..3 : IsNaN(smp.oriRight[n]) /\ IsNaN(smp.gaze3DRight[n])
    /\ \A n \in 1..2 : IsNaN(smp.gaze2DRight[n])

(* the sample with the data of a right eye that sees the board *)
WithRightPresent(smp) ==
    LET w == WorldSample(smp.frame_idx, smp.ts, TRUE, EyeSeeing, EyeSeeing,
                         Vec(0, 1, 2), <<R(0), R(1)>>)
    IN  [smp EXCEPT !.oriRight = w.oriRight, !.gaze3DRight = w.gaze3DRight,
                    !.gaze2DRight = w.gaze2DRight]

(* C15: for a posed sample without right-eye data the right-eye rows are
   NaN; the rows of the other methods are what they would be with right-eye
   data present, and not NaN where the method has its own data. *)
C15_RightEyeMissing ==
    \A n \in OffDataLines :
        LET row == o_file[n].row
            smp == SampleOfRow13(row)
            e == MethodOfRow(row)
        IN  (RightEyeMissing(smp) /\ smp.frame_idx \in DOMAIN o_poses) =>
                IF e = 1
                THEN row.offset = NaNOffset
                ELSE /\ row.offset = OffsetOf(WithRightPresent(smp), e,
                                              TargetOfRow(row)[2],
                                              o_poses[smp.frame_idx])
                     /\ ~IsNaN(MethodData(smp, e).gazeBoard[1])
                           => ~IsNaNComp(row.offset[1]) /\ ~IsNaNComp(row.offset[2])

C15_Witness ==
    /\ pcOff = "done"
    /\ Len(o_gazeWorld) = 2
    /\ \A k \in 1..2 : RightEyeMissing(o_gazeWorld[k])
                         /\ o_gazeWorld[k].frame_idx \in DOMAIN o_poses
    /\ ~IsNaN(o_gazeWorld[1].gaze2DLeft[1])
    /\ o_analyzeFrames = <<0, 1>>
    /\ Cardinality(OffDataLines) = 8 * Len(o_targets)
    /\ \A n \in OffDataLines :
          IsNaNComp(o_file[n].row.offset[1])
              <=> (o_file[n].row.eye = "right" \/ IsNaN(o_gazeWorld[2].gaze2DLeft[1]))

(* C16: a row of the ray or the homography method whose gaze point is the
   target's position, in camera space and on the board, carries the offset
   (0, 0). *)
C16_ZeroOffsetOnTarget ==
    \A n \in OffDataLines :
        LET row == o_file[n].row
            smp == SampleOfRow13(row)
            e == MethodOfRow(row)
            d == MethodData(smp, e)
            center == TargetOfRow(row)[2]
        IN  (/\ e \in {2, 3}
             /\ smp.frame_idx \in DOMAIN o_poses
             /\ d.gaze = PlaneToCam(o_poses[smp.frame_idx], center)
             /\ d.gazeBoard = center)
                => row.offset = ZeroOffset

C16_Witness ==
    /\ pcOff = "done"
    /\ \E n, q \in OffDataLines :
          /\ o_file[n].row.eye = "ray"
          /\ o_file[q].row.eye = "homography"
          /\ o_file[n].row.offset = ZeroOffset
          /\ o_file[q].row.offset = ZeroOffset
          /\ MethodData(SampleOfRow13(o_file[n].row), 2).gazeBoard
                = TargetOfRow(o_file[n].row)[2]
    /\ \E n \in OffDataLines :
          /\ o_file[n].row.eye = "ray"
          /\ ~IsNaNComp(o_file[n].row.offset[1])
          /\ o_file[n].row.offset # ZeroOffset


-----------------------------------------------------------------------------
(* Properties of the analysis intervals *)

(* frame f lies in the interval counted k from 1 of the flat list af *)
InInterval(af, k, f) == af[2 * k - 1] <= f /\ f <= af[2 * k]

InSomeInterval(af, f) == \E k \in 1..(Len(af) \div 2) : InInterval(af, k, f)

(* the interval whose data the fixation stage collected last *)
CollectedIval == IF pcFix \in {"classify", "match"} THEN f_ival + 1 ELSE f_ival

(* the frames the frame loop of the gaze stage has left behind *)
FramesPassed == {f \in 0..c_maxFrameIdx : f < c_frame_idx}

(* C17: intervals include both their end frames.  The offset stage has
   written a row labelled k for a sample exactly when the frame of the
   sample lies in start_k..end_k, for every interval it has written; the
   data the fixation stage collects for interval k are the samples of these
   frames; the gaze stage that shows only the intervals writes rows for the
   frames in an interval and for no others.  No sample has rows of two
   intervals, and a sample outside all intervals has no row. *)
C17_InclusiveIntervals ==
    /\ \A k \in 1..o_ival :
          \A n \in 1..Len(o_gazeWorld) :
             (\E l \in OffDataLines :
                  /\ o_file[l].row.marker_interval = k
                  /\ o_file[l].row.timestamp = o_gazeWorld[n].ts)
             <=> InInterval(o_analyzeFrames, k, o_gazeWorld[n].frame_idx)
    /\ \A l \in OffDataLines :
          /\ o_file[l].row.marker_interval \in 1..o_ival
          /\ \A n \in 1..Len(o_gazeWorld) :
                o_gazeWorld[n].ts = o_file[l].row.timestamp
                => /\ InSomeInterval(o_analyzeFrames, o_gazeWorld[n].frame_idx)
                   /\ \A l2 \in OffDataLines :
                         o_file[l2].row.timestamp = o_file[l].row.timestamp
                         => o_file[l2].row.marker_interval
                            = o_file[l].row.marker_interval
    /\ (f_data # <<>>) =>
          \A n \in 1..Len(f_gazeWorld) :
             (\E m \in 1..Len(f_data[1]) : f_data[1][m] = f_gazeWorld[n].ts)
             <=> InInterval(f_analyzeFrames, CollectedIval,
                            f_gazeWorld[n].frame_idx)
    /\ (c_showVisualization /\ c_showOnlyIntervals /\ c_analyzeFrames # <<>>) =>
          /\ \A r \in 1..Len(c_rows) :
                InSomeInterval(c_analyzeFrames, RowKeys[r][1])
          /\ \A f \in FramesPassed :
                InSomeInterval(c_analyzeFrames, f)
                => \A g \in 1..Len(c_gazeData) :
                      c_gazeData[g].frame_idx = f
                      => \E r \in 1..Len(c_rows) :
                            RowKeys[r] = <<f, c_gazeData[g].ts>>

(* the offset stage has dealt with a frame that is the start and the end
   of its interval, next to a sample outside it *)
C17_Witness ==
    /\ pcOff = "done"
    /\ o_analyzeFrames = <<1, 1>>
    /\ Len(o_gazeWorld) = 2
    /\ o_gazeWorld[1].frame_idx = 0
    /\ o_gazeWorld[2].frame_idx = 1
    /\ OffDataLines # {}

(* the same for the fixation stage, with two intervals of one frame *)
C17_WitnessFix ==
    /\ pcFix = "done"
    /\ f_analyzeFrames = <<0, 0, 1, 1>>
    /\ Len(f_gazeWorld) = 2
    /\ f_gazeWorld[1].frame_idx = 0
    /\ f_gazeWorld[2].frame_idx = 1
    /\ f_data # <<>>
    /\ Len(f_data[1]) = 1

(* the same for the gaze stage that shows only the intervals *)
C17_WitnessGaze ==
    /\ pcGaze = "done"
    /\ c_showVisualization /\ c_showOnlyIntervals
    /\ c_analyzeFrames = <<1, 1>>
    /\ Len(c_gazeData) = 2
    /\ c_gazeData[1].frame_idx = 0
    /\ c_gazeData[2].frame_idx = 1
    /\ c_frame_idx = 2
    /\ Len(c_rows) = 1


-----------------------------------------------------------------------------
(* Properties of the fixation stage's data collection *)

(* the recording has samples, none with a gaze position of any kind *)
NoGazeAtAll ==
    /\ f_gazeWorld # <<>>
    /\ \A n \in 1..Len(f_gazeWorld) :
          \A c \in 1..2 :
              /\ IsNaN(f_gazeWorld[n].lGaze2D[c])
              /\ IsNaN(f_gazeWorld[n].rGaze2D[c])
              /\ IsNaN(f_gazeWorld[n].gaze2DRay[c])
              /\ IsNaN(f_gazeWorld[n].gaze2DHomography[c])

(* C19: the fixation stage run on a recording without any gaze position
   does not raise, and when it has ended no target is assigned. *)
C19_AbsentDataNotRaised ==
    (pcFix # "idle" /\ NoGazeAtAll) =>
        /\ pcFix # "raised"
        /\ pcFix = "done" => \A k \in DOMAIN selected : selected[k] = NotSelected


-----------------------------------------------------------------------------
(* Properties of the stages that open the scene video *)

(* C18: when the scene video cannot be opened, a stage that reads it (the
   detection stage; the gaze stage with its display on) goes from opening
   the video to a raised error and to nothing else: it reads no frame,
   writes no row and does not end normally. *)
C18_UnopenedVideoAborts ==
    /\ [](~videoOpens =>
            /\ pcDet \in {"idle", "open", "raised"}
            /\ b_rows = <<>>
            /\ c_showVisualization =>
                  (pcGaze \in {"idle", "open", "raised"} /\ c_rows = <<>>))
    /\ [][(~videoOpens /\ pcDet = "open") => pcDet' = "raised"]_vars
    /\ [][(~videoOpens /\ c_showVisualization /\ pcGaze = "open")
          => pcGaze' = "raised"]_vars

(* the gaze stage with its display on has raised on a video that does not
   open *)
C18_Witness == ~videoOpens /\ c_showVisualization /\ pcGaze = "raised"

(* the same for the detection stage *)
C18_WitnessDet == ~videoOpens /\ pcDet = "raised"

(* the recording holds a number in the given field of some sample *)
RecordingHas(field) ==
    \E n \in 1..Len(f_gazeWorld) :
        ~IsNaN(f_gazeWorld[n][field][1]) \/ ~IsNaN(f_gazeWorld[n][field][2])

(* the samples of the interval that is being classified *)
ClassifiedSamples ==
    SelectSeq(f_gazeWorld,
              LAMBDA s : InInterval(f_analyzeFrames, f_ival + 1,
                                    s.frame_idx))

(* C25: the data handed to the fixation classification are, for every
   interval, those of one signal chosen over all samples of the recording:
   the left and right board positions when each eye has a number in some
   sample, otherwise the ray method when it has one, otherwise the
   homography method. *)
C25_SignalPrecedence ==
    pcFix = "classify" =>
        LET s == ClassifiedSamples
        IN  /\ Len(f_data[3]) = Len(s)
            /\ IF RecordingHas("lGaze2D") /\ RecordingHas("rGaze2D")
               THEN /\ f_data[2] = <<"L_X", "L_Y", "R_X", "R_Y">>
                    /\ \A n \in 1..Len(s) :
                          f_data[3][n] = s[n].lGaze2D \o s[n].rGaze2D
               ELSE /\ f_data[2] = <<"average_X", "average_Y">>
                    /\ \A n \in 1..Len(s) :
                          f_data[3][n] = IF RecordingHas("gaze2DRay")
                                         THEN s[n].gaze2DRay
                                         ELSE s[n].gaze2DHomography

(* the second interval is classified on the left and right positions, which
   its own sample does not have, because a sample of the first interval
   has them *)
C25_Witness ==
    /\ pcFix = "classify"
    /\ f_ival = 1
    /\ f_data[2] = <<"L_X", "L_Y", "R_X", "R_Y">>
    /\ Len(f_data[3]) = 1
    /\ f_data[3][1] = NaNPt \o NaNPt
    /\ Len(ClassifiedSamples) = 1
    /\ ClassifiedSamples[1].gaze2DHomography = FieldPt(4)

(* a recording with homography data only is classified on them *)
C25_WitnessHomography ==
    /\ pcFix = "classify"
    /\ ~RecordingHas("gaze2DRay")
    /\ \E n \in 1..Len(f_data[3]) : f_data[3][n] = FieldPt(4)

(* the file is one header line naming cols, followed by rows of the
   intervals 1..K in interval order and by nothing else *)
HeaderThenRows(file, cols, K) ==
    /\ Len(file) >= 1
    /\ file[1] = HeaderLine(cols)
    /\ \A n \in 2..Len(file) :
          /\ ~file[n].header
          /\ file[n].cols = <<>>
          /\ file[n].row.marker_interval \in 1..K
    /\ \A n \in 2..(Len(file) - 1) :
          file[n].row.marker_interval <= file[n + 1].row.marker_interval

(* C26: once K >= 1 intervals are processed, analysisInterval.tsv and
   gazeTargetOffset.tsv each consist of one header line naming every data
   column, followed by the rows of the intervals 1..K in interval order,
   with nothing of a previous run left. *)
C26_OneHeaderThenRows ==
    /\ f_ival >= 1 => HeaderThenRows(f_file, IntervalColumns, f_ival)
    /\ o_ival >= 1 => HeaderThenRows(o_file, OffsetColumns, o_ival)

-----------------------------------------------------------------------------
(* Properties of the data-quality export *)

NoRowsSelected == \A k \in 1..Len(x_tables) : x_tables[k] = <<>>

(* C20: an export of recordings whose tables hold no rows returns without
   raising, pushes no popup and writes no file. *)
C20_EmptyExportReturns ==
    (pcExp # "idle" /\ NoRowsSelected) =>
        /\ pcExp \in {"start", "done"}
        /\ x_popup = <<>>
        /\ \A n \in 1..Len(x_export) : ~x_export[n].header

(* the export of two recordings without rows has returned *)
C20_Witness ==
    /\ pcExp = "done"
    /\ Len(x_ids) = 2
    /\ NoRowsSelected

(* the rows of the collected tables that the ticks of the popup keep *)
KeptRows ==
    LET d == Concat(x_ids, x_tables, 1)
    IN  {n \in 1..Len(d) :
            /\ \E k \in 1..Len(x_popup[1]) :
                  x_popup[2][k] /\ x_popup[1][k] = d[n].type
            /\ \E k \in 1..Len(x_popup[3]) :
                  x_popup[4][k] /\ x_popup[3][k] = d[n].target}

(* the sum of the accuracies of the rows S that hold a number *)
RECURSIVE AccSum(_)
AccSum(S) ==
    IF S = {} THEN R(0)
    ELSE LET n == CHOOSE x \in S : TRUE
         IN  Add(Concat(x_ids, x_tables, 1)[n].acc, AccSum(S \ {n}))

(* C21: the exported table holds a header and then only rows of the ticked
   types and targets: without averaging exactly the kept rows, one per
   (recording, interval, type, target); with averaging exactly one row per
   (recording, interval, type) that has a kept row, whose value is the mean
   of the group's kept values that are numbers (NaN when it has none), all
   values written with three decimals. *)
C21_ExportFilteredAveraged ==
    pcExp = "exported" =>
        LET d == Concat(x_ids, x_tables, 1)
            groups == {GroupKey(d[n]) : n \in KeptRows}
            member(g) == {n \in KeptRows : GroupKey(d[n]) = g}
            nums(g) == {n \in member(g) : ~IsNaN(d[n].acc)}
            mean(g) == IF nums(g) = {} THEN NaN
                       ELSE Fmt3(Div(AccSum(nums(g)), R(Cardinality(nums(g)))))
        IN  /\ Len(x_export) >= 1 /\ x_export[1].header
            /\ \A n \in 2..Len(x_export) : ~x_export[n].header
            /\ IF x_popup[5]
               THEN /\ Len(x_export) - 1 = Cardinality(groups)
                    /\ \A g \in groups : \E n \in 2..Len(x_export) :
                          x_export[n].row =
                             [recording |-> g[1], marker_interval |-> g[2],
                              type |-> g[3], acc |-> mean(g)]
               ELSE /\ Len(x_export) - 1 = Cardinality(KeptRows)
                    /\ \A k \in KeptRows : \E n \in 2..Len(x_export) :
                          x_export[n].row = [d[k] EXCEPT !.acc = Fmt3(@)]

(* an averaged export with a type unticked in which the values of the two
   targets of a group, 4 and 7, were averaged to 5.500 *)
C21_Witness ==
    /\ pcExp = "exported"
    /\ x_popup[5]
    /\ \E k \in 1..Len(x_popup[2]) : ~x_popup[2][k]
    /\ \E n \in 2..Len(x_export) : x_export[n].row.acc = <<11, 2>>

(* an export without averaging that left out the rows of an unticked target
   and kept one of three rows *)
C21_WitnessPlain ==
    /\ pcExp = "exported"
    /\ ~x_popup[5]
    /\ \E k \in 1..Len(x_popup[4]) : ~x_popup[4][k]
    /\ Len(x_export) = 2
    /\ Len(Concat(x_ids, x_tables, 1)) = 3

-----------------------------------------------------------------------------
(* Properties of the GUI's job bookkeeping *)

(* the fixed order of the stages *)
StageOrder ==
    <<"Not_Imported", "Imported", "Coded", "Markers_Detected",
      "Gaze_Tranformed_To_World", "Target_Offsets_Computed",
      "Fixation_Intervals_Determined", "Data_Quality_Calculated">>

(* the step has launched a job of task t for recording rec in the pool and
   stored it in globals.jobs *)
Launched(rec, t) ==
    /\ Len(g_pool') = Len(g_pool) + 1
    /\ g_pool'[Len(g_pool')] = [rec |-> rec, state |-> "running"]
    /\ rec \in DOMAIN g_jobs'
    /\ g_jobs'[rec] = [id |-> Len(g_pool'), task |-> t]
    /\ \A other \in DOMAIN g_jobs' \ {rec} :
          other \in DOMAIN g_jobs /\ g_jobs'[other] = g_jobs[other]
    /\ UNCHANGED g_queue

(* the step has stored a job of task t for recording rec in
   globals.coding_job_queue and launched nothing *)
Queued(rec, t) ==
    /\ rec \in DOMAIN g_queue'
    /\ g_queue'[rec] = [id |-> 0, task |-> t]
    /\ \A other \in DOMAIN g_queue' \ {rec} :
          other \in DOMAIN g_queue /\ g_queue'[other] = g_queue[other]
    /\ UNCHANGED <<g_jobs, g_pool>>

(* C22: a call of process_recording without a task creates a job for exactly
   the stage that follows the recording's state in the fixed order, as a
   launched job or, for marker coding, a queued one; for a recording at
   Data_Quality_Calculated or in a state outside the order it leaves
   globals.jobs and globals.coding_job_queue unchanged and launches
   nothing. *)
C22_LaunchesSuccessor ==
    [][\A rec \in DOMAIN g_recordings :
          process_recording(rec, "None") =>
             LET t == g_recordings[rec].task
                 at == {k \in 1..(Len(StageOrder) - 1) : StageOrder[k] = t}
             IN  IF at = {}
                 THEN UNCHANGED <<g_jobs, g_queue, g_pool>>
                 ELSE \A k \in at :
                         \/ Launched(rec, StageOrder[k + 1])
                         \/ /\ StageOrder[k + 1] = "Coded"
                            /\ Queued(rec, "Coded")]_vars

(* a recording whose markers were detected was given the gaze
   transformation as its job, the only job launched so far *)
C22_Witness ==
    /\ \E rec \in DOMAIN g_jobs \cap DOMAIN g_recordings :
          /\ g_recordings[rec].task = "Markers_Detected"
          /\ g_jobs[rec].task = "Gaze_Tranformed_To_World"
    /\ Len(g_pool) = 1

CodingJobs == {j \in DOMAIN g_jobs : g_jobs[j].task = "Coded"}

(* C23: globals.jobs never holds more than one job whose task is Coded; a
   coding request made while it holds one is stored in
   globals.coding_job_queue under the recording's id and not launched, and
   every other request that has a function is launched. *)
C23_OneCodingJob ==
    /\ [](Cardinality(CodingJobs) <= 1)
    /\ [][\A rec \in DOMAIN g_recordings :
          \A task \in RequestedTasks :
             process_recording(rec, task) =>
                LET t == IF task = "None"
                         THEN NextTask(g_recordings[rec].task) ELSE task
                IN  IF t \in {"Unknown", "Not_Imported"}
                    THEN UNCHANGED <<g_jobs, g_queue, g_pool>>
                    ELSE IF t = "Coded" /\ CodingJobs # {}
                    THEN Queued(rec, "Coded")
                    ELSE Launched(rec, t)]_vars

(* one coding job is in globals.jobs and the coding request of another
   recording waits in the queue *)
C23_Witness ==
    /\ Cardinality(CodingJobs) = 1
    /\ \E rec \in DOMAIN g_queue : rec \notin CodingJobs
    /\ \A j \in DOMAIN g_jobs : g_pool[g_jobs[j].id].state = "running"

(* the recordings that were removed from the project while a job of theirs
   was known *)
RemovedRecs == (DOMAIN g_jobs \cup DOMAIN g_queue) \ DOMAIN g_recordings

(* C30: a recording that was removed is in neither globals.recordings nor
   globals.selected_recordings, its job in the pool is cancelled and no
   coding job of it is left in globals.coding_job_queue. *)
C30_RemovedNotScheduled ==
    \A rec \in RemovedRecs :
        /\ rec \notin DOMAIN g_selected
        /\ rec \in DOMAIN g_jobs => g_pool[g_jobs[rec].id].state = "cancelled"
        /\ rec \notin DOMAIN g_queue

(* C29: the recordings offered for import never duplicate a source
   directory: their source directories and those of the recordings of the
   project are pairwise distinct. *)
C29_OfferedDistinct ==
    pcAdd = "popup" =>
        /\ \A i, j \in 1..Len(a_offered) :
              i # j => a_offered[i].source_directory
                          # a_offered[j].source_directory
        /\ \A i \in 1..Len(a_offered) :
              a_offered[i].source_directory \notin SourceDirs(g_recordings)

-----------------------------------------------------------------------------
(* Properties of the import of the tracker's gaze data *)

GazeEntries == SelectSeq(j_entries, LAMBDA e : e.type = "gaze")

(* C28: the result of json2df has one row per entry of type gaze, in the
   order of the file, and none for other entries; the columns of both eyes
   exist, and an eye without data in a sample has NaN in its origin and
   direction. *)
C28_RowPerGazeEntry ==
    pcJson = "done" =>
        /\ Len(j_df[2]) = Len(GazeEntries)
        /\ \A n \in 1..Len(GazeEntries) :
              n <= Len(j_df[2]) =>
                 /\ j_df[2][n].timestamp = GazeEntries[n].timestamp * 1000
                 /\ ~GazeEntries[n].left =>
                       /\ j_df[2][n].l_gaze_ori = NaNVec
                       /\ j_df[2][n].l_gaze_dir = NaNVec
                 /\ ~GazeEntries[n].right =>
                       /\ j_df[2][n].r_gaze_ori = NaNVec
                       /\ j_df[2][n].r_gaze_dir = NaNVec

-----------------------------------------------------------------------------
(* The display options of the gaze stage *)

(* the rows of the samples of frame f from sample k on *)
RECURSIVE FrameRows(_, _)
FrameRows(f, k) ==
    IF k > Len(SamplesOf(f)) THEN <<>>
    ELSE RowsOfSample(f, SamplesOf(f)[k], c_poses, c_camera)
         \o FrameRows(f, k + 1)

(* the rows of all samples of the frames f..maxFrameIdx: what process writes
   with the display off *)
RECURSIVE RowsFromFrame(_)
RowsFromFrame(f) ==
    IF f > c_maxFrameIdx THEN <<>>
    ELSE FrameRows(f, 1) \o RowsFromFrame(f + 1)

(* C27: when process has ended without a key having been pressed, the rows
   written are those of all samples of all frames, whatever the settings of
   showVisualization and showOnlyIntervals are. *)
C27_RowsIgnoreDisplay ==
    (pcGaze = "done" /\ c_key = "") => c_rows = RowsFromFrame(0)

-----------------------------------------------------------------------------
(* Properties of the loop over the recordings *)

(* C24: process returns True exactly when 'q' was pressed; the loop over the
   recordings then stops without starting another recording, whereas after
   'n' or the end of the video (process returns False) it starts the next
   recording when there is one. *)
C24_QuitStopsBatch ==
    /\ [](pcGaze = "done" => (c_stopAllProcessing <=> c_key = "q"))
    /\ [][(pcGaze = "done" /\ c_batch >= 1) =>
             IF c_key = "q"
             THEN c_batch' = c_batch /\ pcGaze' = "stopped"
             ELSE IF c_batch < MaxBatch
             THEN c_batch' = c_batch + 1 /\ pcGaze' = "readGaze"
             ELSE c_batch' = c_batch /\ pcGaze' = "finished"]_vars

(* 'q' was pressed in the first recording after a row was written, and the
   loop has stopped with the second recording not started *)
C24_Witness ==
    /\ pcGaze = "stopped"
    /\ c_batch = 1
    /\ c_key = "q"
    /\ c_rows # <<>>

(* the first recording was ended with 'n' and the second is processed *)
C24_WitnessNext ==
    /\ c_batch = 2
    /\ c_key = "n"
    /\ pcGaze = "samples"

(* the first recording ran to the end of its video and the second is
   processed *)
C24_WitnessEnd ==
    /\ c_batch = 2
    /\ c_key = ""
    /\ pcGaze = "samples"

=============================================================================
